---- MODULE Spec2Model ----
(***************************************************************************)
(* Model of the mini-school-api service layer: the users, classes and      *)
(* students tables and the ClassService / StudentService / AuthService     *)
(* operations over them.  Every service call is one atomic action (the     *)
(* sequential, non-overlapping reading); its outcome is recorded in        *)
(* `last` as the operation name and the Error message it threw ("ok" when  *)
(* it returned).  The createdAt/updatedAt columns are not modelled.  The  *)
(* store's own constraints (foreign key students.class_id -> classes.id,   *)
(* unique users.email) are never the deciding check in a sequential run:   *)
(* each service tests the condition itself before it writes.  The classes  *)
(* table has an index, not a unique constraint, on (name, section).        *)
(* `response` is the HTTP response last written by a middleware or a        *)
(* controller; `calls` holds the service calls that run statement by        *)
(* statement, overlapping each other; there the foreign key is checked by   *)
(* the store on every write, since another call's write may have come       *)
(* between a call's own check and its write.                                *)
(***************************************************************************)
EXTENDS Integers, FiniteSets, Sequences, TLC

VARIABLES users, classes, students, nextUserId, nextClassId, nextStudentId, last,
          response, calls

vars == <<users, classes, students, nextUserId, nextClassId, nextStudentId, last,
          response, calls>>

store == <<users, classes, students>>

\* ---------------------------------------------------------------- values

\* SQL NULL / a falsy id (serial ids start at 1)
NULL == 0

\* a field left out of an update object (JavaScript undefined)
UNDEFINED == -1

\* the literal 5 of "count >= 5": students per class section
MaxStudentsPerSection == 5

\* the literal 5 of "teacherClasses.length >= 5": sections per teacher
MaxSectionsPerTeacher == 5

\* age given to the student row created on registration with role student
DefaultAge == 18

\* the 10 of "options.limit || 10": the page size when none is asked for
DefaultLimit == 10

\* the 100 of "limit > 100": the largest page size the controller lets through
MaxLimit == 100

Roles == {"admin", "teacher", "student"}

\* ---------------------------------------------------- bounds of the model

MaxUsers == 1
MaxClasses == 2
MaxStudents == 2

\* bounds of the enrollment specification
EnrollMaxClasses == 2
EnrollMaxStudents == 6

\* bounds of the roster specification
RosterMaxClasses == 2
RosterMaxStudents == 3

\* bounds of the teacher-assignment specification
TeachMaxUsers == 2
TeachMaxClasses == 6

\* bounds of the class-naming specification
NameMaxClasses == 3

\* overlapping enrollStudent calls
MaxCalls == 2

\* class ids in the store when the overlapping teacher calls start
TeachRaceClasses == 6

\* class and student ids in the store when a deleteClass call overlaps the
\* calls that put a student in a class
DeleteRaceClasses == 1
DeleteRaceStudents == 1

\* student ids in the store when the overlapping calls start
RaceStudents == 6

\* bounds of the HTTP specifications
HttpMaxUsers == 3
HttpMaxClasses == 1
HttpMaxStudents == 1
CapacityMaxStudents == 6

\* bounds of the listing specification
ListMaxClasses == 2
ListMaxStudents == 3
ListMaxPage == 3
ListMaxLimit == 3

\* bounds of the dashboard specification
AdminMaxUsers == 2
AdminMaxClasses == 1
AdminMaxStudents == 3

\* bounds of the class-listing specification
ClassListMaxUsers == 2
ClassListMaxClasses == 2
ClassListMaxStudents == 2

\* bounds of the class-change specification
MoveMaxClasses == 2
MoveMaxStudents == 6

\* bounds of the class-clearing specification
ClearMaxClasses == 2
ClearMaxStudents == 3

\* bounds of the failure-frame specification
FrameMaxUsers == 1
FrameMaxClasses == 1
FrameMaxStudents == 6

\* ------------------------------------------------------- error messages

ErrClassNotFound == "Class not found"
ErrStudentNotFound == "Student not found"
ErrClassExists == "Class already exists"
ErrInvalidTeacher == "Invalid teacher ID. User must exist and have teacher role."
ErrNotTeacher == "Teacher not found or user is not a teacher"
ErrTeacherLimit == "Teacher cannot be assigned to more than 5 sections"
ErrHasStudents == "Cannot delete class with enrolled students"
ErrAlreadyEnrolled == "Student is already enrolled in this class"
ErrSectionFull == "Class section is full. Maximum 5 students allowed per section."
ErrNotEnrolled == "Student is not enrolled in any class"
ErrNoSuchClass == "Specified class does not exist"
ErrEnrollFailed == "Failed to enroll student"
ErrAssignFailed == "Failed to assign teacher to class"
ErrDeleteFailed == "Failed to delete class"
ErrUpdateFailed == "Failed to update student"
ErrFkStudents ==
    "insert or update on table students violates foreign key constraint students_class_id_classes_id_fk"
ErrFkClasses ==
    "update or delete on table classes violates foreign key constraint students_class_id_classes_id_fk on table students"
ErrEmailExists == "User with this email already exists"
ErrPassword == "Password validation failed"
OK == "ok"

\* ------------------------------------------------------------- queries

\* db.select().from(classes).where(eq(classes.id, id))
classRows(id) == {c \in classes : c.id = id}

\* db.select().from(students).where(eq(students.id, id))
studentRows(id) == {s \in students : s.id = id}

\* db.select().from(classes).where(eq(classes.name, name))
classesNamed(name) == {c \in classes : c.name = name}

\* select count(students.id) from students where class_id = classId
studentCount(classId) == Cardinality({s \in students : s.classId = classId})

\* db.select().from(classes).where(eq(classes.teacherId, teacherId))
teacherClasses(teacherId) == {c \in classes : c.teacherId = teacherId}

\* db.select().from(users).where(and(eq(users.id, id), eq(users.role, "teacher")))
teacherRows(id) == {u \in users : u.id = id /\ u.role = "teacher"}

\* the single row of a primary-key lookup that found one
theRow(rows) == CHOOSE r \in rows : TRUE

\* the candidates for "const [row] = ... .limit(n)": any matching row may
\* come first (the query has no ORDER BY); the empty set when none matches
firstRow(rows) == IF rows = {} THEN {{}} ELSE {{r} : r \in rows}

\* the ascending order of asc(column) on a text column, for the strings the
\* model uses
Collation == <<"A", "Ann", "B", "Bob", "Eve", "Math", "Science">>

nameRank(name) == CHOOSE i \in 1..Len(Collation) : Collation[i] = name

\* eq(a, b) treating NULL as a value equal to itself
sqlEq_NullIsValue(a, b) == IF a = b THEN "true" ELSE "false"

\* eq(a, b) as the store evaluates it: a comparison with NULL on either side
\* is unknown, and where() keeps the rows whose condition is true
sqlEq(a, b) ==
    IF a = NULL \/ b = NULL THEN "unknown"
    ELSE IF a = b THEN "true"
    ELSE "false"

\* the all-NULL columns a left join gives a row that has no match
NullStudent == [id |-> NULL, name |-> "", age |-> NULL, classId |-> NULL]

NullUser == [id |-> NULL, name |-> "", email |-> "", role |-> ""]

\* the foreign key students.class_id -> classes.id left unenforced
studentsClassIdFk_NotEnforced(classId) == TRUE

\* the foreign key students.class_id -> classes.id, as the store checks it
\* when a students row is inserted or its class_id updated
studentsClassIdFk(classId) == classId = NULL \/ classRows(classId) # {}

\* the same foreign key (ON DELETE no action), as the store checks it when
\* the classes row id is deleted
studentsClassIdFkOnDelete(id) == ~ \E s \in students : s.classId = id

\* a string field left out of a request (undefined; "" is as falsy)
Absent == ""

\* a call that has not been made: op is the method, pc the statement it is
\* at, res the message it threw (OK while running and when it returned)
idleCall ==
    [pc |-> "idle", op |-> "none", classId |-> NULL, studentId |-> NULL,
     res |-> OK]

\* ---------------------------------------------------------------- Init

Init ==
    /\ users = {}
    /\ classes = {}
    /\ students = {}
    /\ nextUserId = 1
    /\ nextClassId = 1
    /\ nextStudentId = 1
    /\ last = [op |-> "none", res |-> OK]
    /\ response = [status |-> 0, by |-> "none"]
    /\ calls = [i \in 1..MaxCalls |-> idleCall]

\* ------------------------------------------------------- ClassService

\* createClass: the message thrown, or OK; existingClass is the first row
\* the by-name query returned
createClassResult(name, section, teacherId, existingClass) ==
    IF existingClass # {} /\ theRow(existingClass).section = section
    THEN ErrClassExists
    ELSE IF teacherId # NULL /\ teacherRows(teacherId) = {}
    THEN ErrInvalidTeacher
    ELSE OK

createClass(name, section, teacherId) ==
    \E existingClass \in firstRow(classesNamed(name)) :
        LET r == createClassResult(name, section, teacherId, existingClass) IN
        /\ last' = [op |-> "createClass", res |-> r]
        /\ IF r = OK
           THEN /\ classes' = classes \cup
                       {[id |-> nextClassId, name |-> name, section |-> section,
                         teacherId |-> teacherId]}
                /\ nextClassId' = nextClassId + 1
           ELSE UNCHANGED <<classes, nextClassId>>
        /\ UNCHANGED <<users, students, nextUserId, nextStudentId>>

\* getClassById
getClassByIdResult(id) == IF classRows(id) = {} THEN ErrClassNotFound ELSE OK

\* getClasses(teacherId); teacherId is NULL when not given
\* from(classes).leftJoin(students, ...).leftJoin(users, ...).where(...): the
\* joined rows, a class with no student or no teacher joined to NULL columns
getClassesJoin(teacherId) ==
    {j \in [class : classes, student : students \cup {NullStudent},
            user : users \cup {NullUser}] :
        /\ IF \E s \in students : sqlEq(j.class.id, s.classId) = "true"
           THEN sqlEq(j.class.id, j.student.classId) = "true"
           ELSE j.student = NullStudent
        /\ IF \E u \in users : sqlEq(j.class.teacherId, u.id) = "true"
           THEN sqlEq(j.class.teacherId, j.user.id) = "true"
           ELSE j.user = NullUser
        /\ teacherId # NULL => sqlEq(j.class.teacherId, teacherId) = "true"}

\* count(*): the rows of the group, the NULL-joined one included
getClassesCount_Star(group) == Cardinality(group)

\* count(students.id): the rows of the group whose students.id is not NULL
getClassesCount(group) == Cardinality({j \in group : j.student.id # NULL})

\* groupBy(classes.*, users.*), the selected columns of each group, and the
\* map that turns a teacher of NULL columns into null (the empty set; else the
\* singleton of {id, name, email})
getClassesRows(teacherId) ==
    {[id |-> g.class.id, name |-> g.class.name, section |-> g.class.section,
      teacherId |-> g.class.teacherId,
      studentCount |-> getClassesCount({j \in getClassesJoin(teacherId) :
                                           j.class = g.class /\ j.user = g.user}),
      teacher |-> IF g.user.id # NULL
                  THEN {[id |-> g.user.id, name |-> g.user.name,
                         email |-> g.user.email]}
                  ELSE {}] :
        g \in {[class |-> j.class, user |-> j.user] :
                  j \in getClassesJoin(teacherId)}}

\* orderBy(asc(classes.name), asc(classes.section)): the sequences the query
\* may return, rows of equal name and section in any order
getClassesReturn(teacherId) ==
    LET rows == getClassesRows(teacherId) IN
    {q \in [1..Cardinality(rows) -> rows] :
        /\ \A i, j \in 1..Cardinality(rows) : i # j => q[i] # q[j]
        /\ \A i, j \in 1..Cardinality(rows) :
               i < j =>
                   \/ nameRank(q[i].name) < nameRank(q[j].name)
                   \/ /\ q[i].name = q[j].name
                      /\ nameRank(q[i].section) <= nameRank(q[j].section)}

\* getClasses reads only
getClasses(teacherId) ==
    /\ last' = [op |-> "getClasses", res |-> OK]
    /\ UNCHANGED <<users, classes, students, nextUserId, nextClassId,
                   nextStudentId>>

\* updateClass: name and section are Absent when not given; duplicateClass
\* is the first row the by-name query returned
updateClassNewName(id, name) ==
    IF name # Absent THEN name ELSE theRow(classRows(id)).name

updateClassNewSection(id, section) ==
    IF section # Absent THEN section ELSE theRow(classRows(id)).section

updateClassResult(id, name, section, duplicateClass) ==
    IF getClassByIdResult(id) # OK
    THEN ErrClassNotFound
    ELSE IF /\ (name # Absent \/ section # Absent)
            /\ duplicateClass # {}
            /\ theRow(duplicateClass).id # id
            /\ theRow(duplicateClass).section = updateClassNewSection(id, section)
    THEN ErrClassExists
    ELSE OK

updateClass(id, name, section) ==
    \E duplicateClass \in
           firstRow(IF classRows(id) = {} THEN {}
                    ELSE classesNamed(updateClassNewName(id, name))) :
        LET r == updateClassResult(id, name, section, duplicateClass) IN
        /\ last' = [op |-> "updateClass", res |-> r]
        /\ IF r = OK
           THEN classes' =
                    {IF c.id = id
                     THEN [c EXCEPT !.name = updateClassNewName(id, name),
                                    !.section = updateClassNewSection(id, section)]
                     ELSE c : c \in classes}
           ELSE UNCHANGED classes
        /\ UNCHANGED <<users, students, nextUserId, nextClassId, nextStudentId>>

\* deleteClass without the enrolled-students check
deleteClassResult_NoStudentCheck(id) ==
    IF classRows(id) = {} THEN ErrClassNotFound ELSE OK

\* deleteClass
deleteClassResult(id) ==
    IF getClassByIdResult(id) # OK
    THEN ErrClassNotFound
    ELSE IF studentCount(id) > 0
    THEN ErrHasStudents
    ELSE OK

deleteClass(id) ==
    LET r == deleteClassResult(id) IN
    /\ last' = [op |-> "deleteClass", res |-> r]
    /\ IF r = OK
       THEN classes' = {c \in classes : c.id # id}
       ELSE UNCHANGED classes
    /\ UNCHANGED <<users, students, nextUserId, nextClassId, nextStudentId>>

\* enrollStudent without the section limit
enrollStudentResult_NoLimit(classId, studentId) ==
    IF classRows(classId) = {}
    THEN ErrClassNotFound
    ELSE IF studentRows(studentId) = {}
    THEN ErrStudentNotFound
    ELSE IF theRow(studentRows(studentId)).classId = classId
    THEN ErrAlreadyEnrolled
    ELSE OK

\* enrollStudent without the already-enrolled check
enrollStudentResult_NoEnrolledCheck(classId, studentId) ==
    IF classRows(classId) = {}
    THEN ErrClassNotFound
    ELSE IF studentRows(studentId) = {}
    THEN ErrStudentNotFound
    ELSE IF studentCount(classId) >= MaxStudentsPerSection
    THEN ErrSectionFull
    ELSE OK

\* enrollStudent refusing a student that is in any class
enrollStudentResult_UnassignedOnly(classId, studentId) ==
    IF classRows(classId) = {}
    THEN ErrClassNotFound
    ELSE IF studentRows(studentId) = {}
    THEN ErrStudentNotFound
    ELSE IF theRow(studentRows(studentId)).classId # NULL
    THEN ErrAlreadyEnrolled
    ELSE IF studentCount(classId) >= MaxStudentsPerSection
    THEN ErrSectionFull
    ELSE OK

\* enrollStudent
enrollStudentResult(classId, studentId) ==
    IF getClassByIdResult(classId) # OK
    THEN ErrClassNotFound
    ELSE IF studentRows(studentId) = {}
    THEN ErrStudentNotFound
    ELSE IF theRow(studentRows(studentId)).classId = classId
    THEN ErrAlreadyEnrolled
    ELSE IF studentCount(classId) >= MaxStudentsPerSection
    THEN ErrSectionFull
    ELSE OK

\* the students table once enrollStudent has returned or thrown
enrollStudentAfter(classId, studentId) ==
    IF enrollStudentResult(classId, studentId) = OK
    THEN {IF s.id = studentId THEN [s EXCEPT !.classId = classId] ELSE s :
              s \in students}
    ELSE students

enrollStudent(classId, studentId) ==
    /\ last' = [op |-> "enrollStudent", res |-> enrollStudentResult(classId, studentId)]
    /\ students' = enrollStudentAfter(classId, studentId)
    /\ UNCHANGED <<users, classes, nextUserId, nextClassId, nextStudentId>>

\* enrollStudent statement by statement, as call i of the overlapping calls;
\* each await is one step, and the checks that follow a read use its rows
returned(call, res) == [call EXCEPT !.pc = "done", !.res = res]

\* a statement of call i, of any method, that reads: the call throws res, or
\* goes on to pc
callRead(i, res, pc) ==
    /\ calls' = [calls EXCEPT ![i] = IF res # OK THEN returned(@, res)
                                     ELSE [@ EXCEPT !.pc = pc]]
    /\ last' = IF res # OK THEN [op |-> calls[i].op, res |-> res] ELSE last
    /\ UNCHANGED <<users, classes, students, nextUserId, nextClassId,
                   nextStudentId, response>>

\* the call is made
enrollStudentCall(i, classId, studentId) ==
    /\ calls[i].pc = "idle"
    /\ calls' = [calls EXCEPT ![i] =
                    [pc |-> "getClassById", op |-> "enrollStudent",
                     classId |-> classId, studentId |-> studentId, res |-> OK]]
    /\ UNCHANGED <<users, classes, students, nextUserId, nextClassId,
                   nextStudentId, last, response>>

\* a statement of call i that reads: the call throws res, or goes on to pc
enrollStudentRead(i, res, pc) ==
    /\ calls' = [calls EXCEPT ![i] = IF res # OK THEN returned(@, res)
                                     ELSE [@ EXCEPT !.pc = pc]]
    /\ last' = IF res # OK THEN [op |-> "enrollStudent", res |-> res] ELSE last
    /\ UNCHANGED <<users, classes, students, nextUserId, nextClassId,
                   nextStudentId, response>>

\* const classInfo = await this.getClassById(classId)
enrollStudentGetClass(i) ==
    /\ calls[i].pc = "getClassById"
    /\ enrollStudentRead(i, getClassByIdResult(calls[i].classId), "selectStudent")

\* const [student] = await db.select()...; the not-found and already-enrolled
\* checks
enrollStudentSelectStudent(i) ==
    /\ calls[i].pc = "selectStudent"
    /\ enrollStudentRead(i,
           IF studentRows(calls[i].studentId) = {} THEN ErrStudentNotFound
           ELSE IF theRow(studentRows(calls[i].studentId)).classId = calls[i].classId
           THEN ErrAlreadyEnrolled
           ELSE OK,
           "count")

\* const [studentCount] = await db.select({count})...; the limit check
enrollStudentCount(i) ==
    /\ calls[i].pc = "count"
    /\ enrollStudentRead(i,
           IF studentCount(calls[i].classId) >= MaxStudentsPerSection
           THEN ErrSectionFull ELSE OK,
           "update")

\* the update statement that loses its write
enrollStudentSet_Lost(classId, studentId) == students

\* db.update(students).set({classId}).where(eq(students.id, studentId))
enrollStudentSet(classId, studentId) ==
    {IF s.id = studentId THEN [s EXCEPT !.classId = classId] ELSE s :
         s \in students}

\* const [updatedStudent] = await db.update(students)...returning(): no row
\* to update is "Failed to enroll student"; a row whose new class_id the
\* store's foreign key refuses is the store's error, and nothing is written
enrollStudentUpdate(i) ==
    LET res == IF studentRows(calls[i].studentId) = {} THEN ErrEnrollFailed
               ELSE IF ~studentsClassIdFk(calls[i].classId) THEN ErrFkStudents
               ELSE OK IN
    /\ calls[i].pc = "update"
    /\ students' = IF res = OK
                   THEN enrollStudentSet(calls[i].classId, calls[i].studentId)
                   ELSE students
    /\ calls' = [calls EXCEPT ![i] = returned(@, res)]
    /\ last' = [op |-> "enrollStudent", res |-> res]
    /\ UNCHANGED <<users, classes, nextUserId, nextClassId, nextStudentId,
                   response>>

\* deleteClass statement by statement, as call i of the overlapping calls
deleteClassCall(i, id) ==
    /\ calls[i].pc = "idle"
    /\ calls' = [calls EXCEPT ![i] =
                    [pc |-> "deleteClass.getClassById", op |-> "deleteClass",
                     classId |-> id, studentId |-> NULL, res |-> OK]]
    /\ UNCHANGED <<users, classes, students, nextUserId, nextClassId,
                   nextStudentId, last, response>>

\* await this.getClassById(id)
deleteClassGetClass(i) ==
    /\ calls[i].pc = "deleteClass.getClassById"
    /\ callRead(i, getClassByIdResult(calls[i].classId), "deleteClass.count")

\* const [studentCount] = await db.select({count})...; the has-students check
deleteClassCount(i) ==
    /\ calls[i].pc = "deleteClass.count"
    /\ callRead(i,
           IF studentCount(calls[i].classId) > 0 THEN ErrHasStudents ELSE OK,
           "deleteClass.delete")

\* const [deletedClass] = await db.delete(classes)...returning(): no row to
\* delete is "Failed to delete class"; a row that a student references is
\* the store's foreign-key error, and nothing is deleted
deleteClassDelete(i) ==
    LET res == IF classRows(calls[i].classId) = {} THEN ErrDeleteFailed
               ELSE IF ~studentsClassIdFkOnDelete(calls[i].classId)
               THEN ErrFkClasses
               ELSE OK IN
    /\ calls[i].pc = "deleteClass.delete"
    /\ classes' = IF res = OK THEN {c \in classes : c.id # calls[i].classId}
                  ELSE classes
    /\ calls' = [calls EXCEPT ![i] = returned(@, res)]
    /\ last' = [op |-> "deleteClass", res |-> res]
    /\ UNCHANGED <<users, students, nextUserId, nextClassId, nextStudentId,
                   response>>

\* removeStudentFromClass without the not-enrolled check
removeStudentFromClassResult_NoNullCheck(studentId) ==
    IF studentRows(studentId) = {} THEN ErrStudentNotFound ELSE OK

\* removeStudentFromClass (unenroll)
removeStudentFromClassResult(studentId) ==
    IF studentRows(studentId) = {}
    THEN ErrStudentNotFound
    ELSE IF theRow(studentRows(studentId)).classId = NULL
    THEN ErrNotEnrolled
    ELSE OK

removeStudentFromClass(studentId) ==
    LET r == removeStudentFromClassResult(studentId) IN
    /\ last' = [op |-> "removeStudentFromClass", res |-> r]
    /\ IF r = OK
       THEN students' = {IF s.id = studentId THEN [s EXCEPT !.classId = NULL]
                         ELSE s : s \in students}
       ELSE UNCHANGED students
    /\ UNCHANGED <<users, classes, nextUserId, nextClassId, nextStudentId>>

\* assignTeacherToClass looking the account up by id alone, whatever its role
assignTeacherToClassResult_AnyRole(classId, teacherId) ==
    IF classRows(classId) = {}
    THEN ErrClassNotFound
    ELSE IF {u \in users : u.id = teacherId} = {}
    THEN ErrNotTeacher
    ELSE IF Cardinality(teacherClasses(teacherId)) >= MaxSectionsPerTeacher
    THEN ErrTeacherLimit
    ELSE OK

\* assignTeacherToClass
assignTeacherToClassResult(classId, teacherId) ==
    IF getClassByIdResult(classId) # OK
    THEN ErrClassNotFound
    ELSE IF teacherRows(teacherId) = {}
    THEN ErrNotTeacher
    ELSE IF Cardinality(teacherClasses(teacherId)) >= MaxSectionsPerTeacher
    THEN ErrTeacherLimit
    ELSE OK

assignTeacherToClass(classId, teacherId) ==
    LET r == assignTeacherToClassResult(classId, teacherId) IN
    /\ last' = [op |-> "assignTeacherToClass", res |-> r]
    /\ IF r = OK
       THEN classes' = {IF c.id = classId THEN [c EXCEPT !.teacherId = teacherId]
                        ELSE c : c \in classes}
       ELSE UNCHANGED classes
    /\ UNCHANGED <<users, students, nextUserId, nextClassId, nextStudentId>>

\* removeTeacherFromClass refusing a class that has no teacher, as
\* removeStudentFromClass refuses a student that has no class
removeTeacherFromClassResult_NeedsTeacher(classId) ==
    IF classRows(classId) = {}
    THEN ErrClassNotFound
    ELSE IF theRow(classRows(classId)).teacherId = NULL
    THEN ErrNotTeacher
    ELSE OK

\* removeTeacherFromClass
removeTeacherFromClassResult(classId) == getClassByIdResult(classId)

\* db.update(classes).set({teacherId: null}).where(eq(classes.id, classId))
removeTeacherFromClassSet(classId) ==
    {IF c.id = classId THEN [c EXCEPT !.teacherId = NULL] ELSE c : c \in classes}

removeTeacherFromClass(classId) ==
    LET r == removeTeacherFromClassResult(classId) IN
    /\ last' = [op |-> "removeTeacherFromClass", res |-> r]
    /\ IF r = OK
       THEN classes' = removeTeacherFromClassSet(classId)
       ELSE UNCHANGED classes
    /\ UNCHANGED <<users, students, nextUserId, nextClassId, nextStudentId>>

\* assignTeacherToClass and createClass statement by statement, as call i of
\* the overlapping calls; each await is one step.  op is the method, section
\* the section a createClass call asks for.
idleTeachCall ==
    [pc |-> "idle", op |-> "none", classId |-> NULL, section |-> Absent,
     teacherId |-> NULL, res |-> OK]

\* the call assignTeacherToClass(classId, teacherId) is made
assignTeacherToClassCall(i, classId, teacherId) ==
    /\ calls[i].pc = "idle"
    /\ calls' = [calls EXCEPT ![i] =
                    [pc |-> "getClassById", op |-> "assignTeacherToClass",
                     classId |-> classId, section |-> Absent,
                     teacherId |-> teacherId, res |-> OK]]
    /\ UNCHANGED <<users, classes, students, nextUserId, nextClassId,
                   nextStudentId, last, response>>

\* await this.getClassById(classId)
assignTeacherToClassGetClass(i) ==
    /\ calls[i].op = "assignTeacherToClass"
    /\ calls[i].pc = "getClassById"
    /\ callRead(i, getClassByIdResult(calls[i].classId), "selectTeacher")

\* const [teacher] = await db.select().from(users)...
assignTeacherToClassSelectTeacher(i) ==
    /\ calls[i].op = "assignTeacherToClass"
    /\ calls[i].pc = "selectTeacher"
    /\ callRead(i,
           IF teacherRows(calls[i].teacherId) = {} THEN ErrNotTeacher ELSE OK,
           "selectTeacherClasses")

\* const teacherClasses = await db.select().from(classes)...; the limit check
assignTeacherToClassCount(i) ==
    /\ calls[i].op = "assignTeacherToClass"
    /\ calls[i].pc = "selectTeacherClasses"
    /\ callRead(i,
           IF Cardinality(teacherClasses(calls[i].teacherId))
                  >= MaxSectionsPerTeacher
           THEN ErrTeacherLimit ELSE OK,
           "update")

\* the update statement that loses its write
assignTeacherToClassSet_Lost(classId, teacherId) == classes

\* db.update(classes).set({teacherId}).where(eq(classes.id, classId))
assignTeacherToClassSet(classId, teacherId) ==
    {IF c.id = classId THEN [c EXCEPT !.teacherId = teacherId] ELSE c :
         c \in classes}

\* const [updatedClass] = await db.update(classes)...returning()
assignTeacherToClassUpdate(i) ==
    LET res == IF classRows(calls[i].classId) = {} THEN ErrAssignFailed
               ELSE OK IN
    /\ calls[i].op = "assignTeacherToClass"
    /\ calls[i].pc = "update"
    /\ classes' = assignTeacherToClassSet(calls[i].classId, calls[i].teacherId)
    /\ calls' = [calls EXCEPT ![i] = returned(@, res)]
    /\ last' = [op |-> "assignTeacherToClass", res |-> res]
    /\ UNCHANGED <<users, students, nextUserId, nextClassId, nextStudentId,
                   response>>

\* the call createClass({name: "M", section, teacherId}) is made
createClassCall(i, section, teacherId) ==
    /\ calls[i].pc = "idle"
    /\ calls' = [calls EXCEPT ![i] =
                    [pc |-> "selectExisting", op |-> "createClass",
                     classId |-> NULL, section |-> section,
                     teacherId |-> teacherId, res |-> OK]]
    /\ UNCHANGED <<users, classes, students, nextUserId, nextClassId,
                   nextStudentId, last, response>>

\* const [existingClass] = await db.select().from(classes)...; the duplicate
\* check; the teacher query is skipped for a falsy teacherId
createClassSelectExisting(i) ==
    /\ calls[i].op = "createClass"
    /\ calls[i].pc = "selectExisting"
    /\ \E existingClass \in firstRow(classesNamed("M")) :
           callRead(i,
               IF /\ existingClass # {}
                  /\ theRow(existingClass).section = calls[i].section
               THEN ErrClassExists ELSE OK,
               IF calls[i].teacherId # NULL THEN "selectTeacher" ELSE "insert")

\* const [teacher] = await db.select().from(users)...
createClassSelectTeacher(i) ==
    /\ calls[i].op = "createClass"
    /\ calls[i].pc = "selectTeacher"
    /\ callRead(i,
           IF teacherRows(calls[i].teacherId) = {} THEN ErrInvalidTeacher
           ELSE OK,
           "insert")

\* const [createdClass] = await db.insert(classes).values(newClass).returning()
createClassInsert(i) ==
    /\ calls[i].op = "createClass"
    /\ calls[i].pc = "insert"
    /\ classes' = classes \cup
           {[id |-> nextClassId, name |-> "M", section |-> calls[i].section,
             teacherId |-> calls[i].teacherId]}
    /\ nextClassId' = nextClassId + 1
    /\ calls' = [calls EXCEPT ![i] = [returned(@, OK) EXCEPT
                                         !.classId = nextClassId]]
    /\ last' = [op |-> "createClass", res |-> OK]
    /\ UNCHANGED <<users, students, nextUserId, nextStudentId, response>>

\* ----------------------------------------------------- StudentService

\* getStudentById: the student row left-joined with its class; class is the
\* empty set for a null summary, else the singleton of {id, name, section}
getStudentByIdResult(id) == IF studentRows(id) = {} THEN ErrStudentNotFound ELSE OK

\* getStudentById without the left join: the class summary is always null
getStudentById_NoJoin(id) ==
    LET student == theRow(studentRows(id)) IN
    [id |-> student.id, name |-> student.name, age |-> student.age,
     classId |-> student.classId, class |-> {}]

getStudentById(id) ==
    LET student == theRow(studentRows(id)) IN
    [id |-> student.id, name |-> student.name, age |-> student.age,
     classId |-> student.classId,
     class |-> {[id |-> c.id, name |-> c.name, section |-> c.section] :
                    c \in classRows(student.classId)}]

\* createStudent with the section limit off by one (count > 5)
createStudentResult_OffByOne(name, age, classId) ==
    IF classId # NULL /\ classRows(classId) = {}
    THEN ErrNoSuchClass
    ELSE IF classId # NULL /\ studentCount(classId) > MaxStudentsPerSection
    THEN ErrSectionFull
    ELSE OK

\* createStudent
createStudentResult(name, age, classId) ==
    IF classId # NULL /\ classRows(classId) = {}
    THEN ErrNoSuchClass
    ELSE IF classId # NULL /\ studentCount(classId) >= MaxStudentsPerSection
    THEN ErrSectionFull
    ELSE OK

\* createStudent inserting the row before it runs its checks
createStudent_InsertFirst(name, age, classId) ==
    /\ last' = [op |-> "createStudent",
                res |-> createStudentResult(name, age, classId)]
    /\ students' = students \cup
           {[id |-> nextStudentId, name |-> name, age |-> age,
             classId |-> classId]}
    /\ nextStudentId' = nextStudentId + 1
    /\ UNCHANGED <<users, classes, nextUserId, nextClassId>>

createStudent(name, age, classId) ==
    LET r == createStudentResult(name, age, classId) IN
    /\ last' = [op |-> "createStudent", res |-> r]
    /\ IF r = OK
       THEN /\ students' = students \cup
                   {[id |-> nextStudentId, name |-> name, age |-> age,
                     classId |-> classId]}
            /\ nextStudentId' = nextStudentId + 1
       ELSE UNCHANGED <<students, nextStudentId>>
    /\ UNCHANGED <<users, classes, nextUserId, nextClassId>>

\* createStudent({name: "Ann", age: 10, classId}) statement by statement
createStudentCall(i, classId) ==
    /\ calls[i].pc = "idle"
    /\ calls' = [calls EXCEPT ![i] =
                    [pc |-> IF classId # NULL THEN "createStudent.selectClass"
                            ELSE "createStudent.insert",
                     op |-> "createStudent", classId |-> classId,
                     studentId |-> NULL, res |-> OK]]
    /\ UNCHANGED <<users, classes, students, nextUserId, nextClassId,
                   nextStudentId, last, response>>

\* const [existingClass] = await db.select().from(classes)...
createStudentSelectClass(i) ==
    /\ calls[i].pc = "createStudent.selectClass"
    /\ callRead(i,
           IF classRows(calls[i].classId) = {} THEN ErrNoSuchClass ELSE OK,
           "createStudent.count")

\* const [studentCount] = await db.select({count})...; the limit check
createStudentCount(i) ==
    /\ calls[i].pc = "createStudent.count"
    /\ callRead(i,
           IF studentCount(calls[i].classId) >= MaxStudentsPerSection
           THEN ErrSectionFull ELSE OK,
           "createStudent.insert")

\* const [createdStudent] = await db.insert(students)...returning(): the
\* serial id is drawn before the foreign key is checked
createStudentInsert(i) ==
    LET res == IF ~studentsClassIdFk(calls[i].classId) THEN ErrFkStudents
               ELSE OK IN
    /\ calls[i].pc = "createStudent.insert"
    /\ students' = IF res = OK
                   THEN students \cup
                            {[id |-> nextStudentId, name |-> "Ann", age |-> 10,
                              classId |-> calls[i].classId]}
                   ELSE students
    /\ nextStudentId' = nextStudentId + 1
    /\ calls' = [calls EXCEPT ![i] =
                    IF res = OK
                    THEN [@ EXCEPT !.pc = "createStudent.getStudentById",
                                   !.studentId = nextStudentId]
                    ELSE returned(@, res)]
    /\ last' = IF res # OK THEN [op |-> "createStudent", res |-> res] ELSE last
    /\ UNCHANGED <<users, classes, nextUserId, nextClassId, response>>

\* return this.getStudentById(createdStudent.id)
createStudentFetch(i) ==
    /\ calls[i].pc = "createStudent.getStudentById"
    /\ calls' = [calls EXCEPT ![i] =
                    returned(@, getStudentByIdResult(calls[i].studentId))]
    /\ last' = [op |-> "createStudent",
                res |-> getStudentByIdResult(calls[i].studentId)]
    /\ UNCHANGED <<users, classes, students, nextUserId, nextClassId,
                   nextStudentId, response>>

\* updateStudent(id, {classId}) statement by statement; existingClassId is
\* existingStudent.classId as the first statement read it
updateStudentCall(i, id, classId) ==
    /\ calls[i].pc = "idle"
    /\ calls' = [calls EXCEPT ![i] =
                    [pc |-> "updateStudent.getStudentById",
                     op |-> "updateStudent", classId |-> classId,
                     studentId |-> id, res |-> OK, existingClassId |-> NULL]]
    /\ UNCHANGED <<users, classes, students, nextUserId, nextClassId,
                   nextStudentId, last, response>>

\* const existingStudent = await this.getStudentById(id)
updateStudentGetStudent(i) ==
    /\ calls[i].pc = "updateStudent.getStudentById"
    /\ IF getStudentByIdResult(calls[i].studentId) # OK
       THEN callRead(i, ErrStudentNotFound, "done")
       ELSE /\ calls' = [calls EXCEPT ![i] =
                           [@ EXCEPT
                              !.existingClassId =
                                  getStudentById(calls[i].studentId).classId,
                              !.pc = IF calls[i].classId \notin {UNDEFINED, NULL}
                                     THEN "updateStudent.selectClass"
                                     ELSE "updateStudent.update"]]
            /\ UNCHANGED <<users, classes, students, nextUserId, nextClassId,
                           nextStudentId, last, response>>

\* const [existingClass] = await db.select().from(classes)...
updateStudentSelectClass(i) ==
    /\ calls[i].pc = "updateStudent.selectClass"
    /\ callRead(i,
           IF classRows(calls[i].classId) = {} THEN ErrNoSuchClass ELSE OK,
           IF calls[i].existingClassId # calls[i].classId
           THEN "updateStudent.count" ELSE "updateStudent.update")

\* const [studentCount] = await db.select({count})...; the limit check
updateStudentCount(i) ==
    /\ calls[i].pc = "updateStudent.count"
    /\ callRead(i,
           IF studentCount(calls[i].classId) >= MaxStudentsPerSection
           THEN ErrSectionFull ELSE OK,
           "updateStudent.update")

\* const [updatedStudent] = await db.update(students)...returning()
updateStudentUpdate(i) ==
    LET res == IF studentRows(calls[i].studentId) = {} THEN ErrUpdateFailed
               ELSE IF /\ calls[i].classId # UNDEFINED
                       /\ ~studentsClassIdFk(calls[i].classId)
               THEN ErrFkStudents
               ELSE OK IN
    /\ calls[i].pc = "updateStudent.update"
    /\ students' = IF res = OK /\ calls[i].classId # UNDEFINED
                   THEN {IF s.id = calls[i].studentId
                         THEN [s EXCEPT !.classId = calls[i].classId]
                         ELSE s : s \in students}
                   ELSE students
    /\ calls' = [calls EXCEPT ![i] =
                    IF res = OK
                    THEN [@ EXCEPT !.pc = "updateStudent.return"]
                    ELSE returned(@, res)]
    /\ last' = IF res # OK THEN [op |-> "updateStudent", res |-> res] ELSE last
    /\ UNCHANGED <<users, classes, nextUserId, nextClassId, nextStudentId,
                   response>>

\* return this.getStudentById(id)
updateStudentFetch(i) ==
    /\ calls[i].pc = "updateStudent.return"
    /\ calls' = [calls EXCEPT ![i] =
                    returned(@, getStudentByIdResult(calls[i].studentId))]
    /\ last' = [op |-> "updateStudent",
                res |-> getStudentByIdResult(calls[i].studentId)]
    /\ UNCHANGED <<users, classes, students, nextUserId, nextClassId,
                   nextStudentId, response>>

\* updateStudent checking the section limit even when the class is unchanged
updateStudentResult_AlwaysLimit(id, name, age, classId) ==
    IF studentRows(id) = {}
    THEN ErrStudentNotFound
    ELSE IF classId # UNDEFINED /\ classId # NULL /\ classRows(classId) = {}
    THEN ErrNoSuchClass
    ELSE IF /\ classId # UNDEFINED /\ classId # NULL
            /\ studentCount(classId) >= MaxStudentsPerSection
    THEN ErrSectionFull
    ELSE OK

\* updateStudent with the class-existence check only, no section limit
updateStudentResult_NoLimit(id, name, age, classId) ==
    IF studentRows(id) = {}
    THEN ErrStudentNotFound
    ELSE IF classId # UNDEFINED /\ classId # NULL /\ classRows(classId) = {}
    THEN ErrNoSuchClass
    ELSE OK

\* updateStudent: name is Absent, age and classId are UNDEFINED when not
\* given; classId NULL clears the class reference
updateStudentResult(id, name, age, classId) ==
    IF getStudentByIdResult(id) # OK
    THEN ErrStudentNotFound
    ELSE IF classId # UNDEFINED /\ classId # NULL /\ classRows(classId) = {}
    THEN ErrNoSuchClass
    ELSE IF /\ classId # UNDEFINED /\ classId # NULL
            /\ getStudentById(id).classId # classId
            /\ studentCount(classId) >= MaxStudentsPerSection
    THEN ErrSectionFull
    ELSE OK

\* updateStudent leaving the class reference alone for a null classId as it
\* does for an omitted one
updateStudentAfter_NullIgnored(id, name, age, classId) ==
    IF updateStudentResult(id, name, age, classId) = OK
    THEN {IF s.id = id
          THEN [s EXCEPT
                  !.name = IF name = Absent THEN @ ELSE name,
                  !.age = IF age = UNDEFINED THEN @ ELSE age,
                  !.classId = IF classId \in {UNDEFINED, NULL} THEN @
                              ELSE classId]
          ELSE s : s \in students}
    ELSE students

\* the students table once updateStudent has returned or thrown
updateStudentAfter(id, name, age, classId) ==
    IF updateStudentResult(id, name, age, classId) = OK
    THEN {IF s.id = id
          THEN [s EXCEPT
                  !.name = IF name = Absent THEN @ ELSE name,
                  !.age = IF age = UNDEFINED THEN @ ELSE age,
                  !.classId = IF classId = UNDEFINED THEN @ ELSE classId]
          ELSE s : s \in students}
    ELSE students

updateStudent(id, name, age, classId) ==
    /\ last' = [op |-> "updateStudent",
                res |-> updateStudentResult(id, name, age, classId)]
    /\ students' = updateStudentAfter(id, name, age, classId)
    /\ UNCHANGED <<users, classes, nextUserId, nextClassId, nextStudentId>>

\* getStudents; page, limit and classId are NULL when not given (each is
\* tested for truthiness)
\* where(whereCondition): every student when classId is not given
whereCondition(classId) ==
    IF classId # NULL THEN {s \in students : s.classId = classId} ELSE students

\* const offset = (page - 1) * limit, counted from the page number itself
getStudentsOffset_FromPage(page, limit) ==
    (IF page # NULL THEN page ELSE 1) * (IF limit # NULL THEN limit ELSE DefaultLimit)

\* const offset = (page - 1) * limit
getStudentsOffset(page, limit) ==
    ((IF page # NULL THEN page ELSE 1) - 1) *
        (IF limit # NULL THEN limit ELSE DefaultLimit)

\* Math.ceil(totalStudents / limit)
getStudentsTotalPages(totalStudents, limit) ==
    LET l == IF limit # NULL THEN limit ELSE DefaultLimit IN
    IF totalStudents % l = 0 THEN totalStudents \div l
    ELSE (totalStudents \div l) + 1

\* the row sequences .orderBy(asc(students.name)) may produce: every matching
\* row once, names ascending, rows of equal name in any order
orderByName(rows) ==
    {q \in [1..Cardinality(rows) -> rows] :
        /\ \A i, j \in 1..Cardinality(rows) : i # j => q[i] # q[j]
        /\ \A i, j \in 1..Cardinality(rows) :
               i < j => nameRank(q[i].name) <= nameRank(q[j].name)}

\* what getStudents returns when the ordered query produced `ordered`:
\* .limit(limit).offset(offset), each row with its left-joined class summary
getStudentsReturn(page, limit, classId, ordered) ==
    LET l == IF limit # NULL THEN limit ELSE DefaultLimit
        offset == getStudentsOffset(page, limit)
        n == IF Len(ordered) <= offset THEN 0
             ELSE IF Len(ordered) - offset < l THEN Len(ordered) - offset
             ELSE l
        total == Cardinality(whereCondition(classId))
    IN  [students |-> [i \in 1..n |-> getStudentById(ordered[offset + i].id)],
         pagination |->
             [currentPage |-> IF page # NULL THEN page ELSE 1,
              totalPages |-> getStudentsTotalPages(total, limit),
              totalStudents |-> total,
              limit |-> l]]

\* getStudents reads only
getStudents(page, limit, classId) ==
    /\ last' = [op |-> "getStudents", res |-> OK]
    /\ UNCHANGED <<users, classes, students, nextUserId, nextClassId,
                   nextStudentId>>

\* deleteStudent
deleteStudentResult(id) == getStudentByIdResult(id)

deleteStudent(id) ==
    LET r == deleteStudentResult(id) IN
    /\ last' = [op |-> "deleteStudent", res |-> r]
    /\ IF r = OK
       THEN students' = {s \in students : s.id # id}
       ELSE UNCHANGED students
    /\ UNCHANGED <<users, classes, nextUserId, nextClassId, nextStudentId>>

\* -------------------------------------------------------- AuthService

\* registerUser; passwordValid is validatePasswordStrength(password).isValid
registerUserResult(name, email, role, passwordValid) ==
    IF {u \in users : u.email = email} # {}
    THEN ErrEmailExists
    ELSE IF ~passwordValid
    THEN ErrPassword
    ELSE OK

registerUser(name, email, role, passwordValid) ==
    LET r == registerUserResult(name, email, role, passwordValid) IN
    /\ last' = [op |-> "registerUser", res |-> r]
    /\ IF r = OK
       THEN /\ users' = users \cup
                   {[id |-> nextUserId, name |-> name, email |-> email,
                     role |-> role]}
            /\ nextUserId' = nextUserId + 1
            /\ IF role = "student"
               THEN /\ students' = students \cup
                           {[id |-> nextStudentId, name |-> name,
                             age |-> DefaultAge, classId |-> NULL]}
                    /\ nextStudentId' = nextStudentId + 1
               ELSE UNCHANGED <<students, nextStudentId>>
       ELSE UNCHANGED <<users, nextUserId, students, nextStudentId>>
    /\ UNCHANGED <<classes, nextClassId>>

\* ------------------------------------------------------- AdminService

\* Math.round(x / y * 100) for x >= 0, y > 0: halves round up
roundPercent(x, y) == (200 * x + y) \div (2 * y)

\* getDashboardStats: what it returns
getDashboardStatsReturn ==
    LET totalStudents == Cardinality(students)
        activeClasses == Cardinality(classes)
        totalTeachers == Cardinality({u \in users : u.role = "teacher"})
        enrolledStudents ==
            Cardinality({s \in students : sqlEq(s.classId, s.classId) = "true"})
    IN  [totalStudents |-> totalStudents,
         activeClasses |-> activeClasses,
         totalTeachers |-> totalTeachers,
         enrollmentRate |-> IF totalStudents > 0
                            THEN roundPercent(enrolledStudents, totalStudents)
                            ELSE 0]

\* getDashboardStats reads only
getDashboardStats ==
    /\ last' = [op |-> "getDashboardStats", res |-> OK]
    /\ UNCHANGED <<users, classes, students, nextUserId, nextClassId,
                   nextStudentId>>

\* ---------------------------------------------------------- middleware

\* Authorization headers: none, a bearer token that jwt.verify rejects, and
\* the access tokens generateTokens signed for the accounts (payload userId
\* and role)
NoHeader == [bearer |-> FALSE, valid |-> FALSE, userId |-> NULL, role |-> ""]

BadToken == [bearer |-> TRUE, valid |-> FALSE, userId |-> NULL, role |-> ""]

accessToken(u) == [bearer |-> TRUE, valid |-> TRUE, userId |-> u.id, role |-> u.role]

Headers == {NoHeader, BadToken} \cup {accessToken(u) : u \in users}

\* authenticateToken: the status it answers with, or 0 when it calls next()
authenticateTokenStatus(authHeader) ==
    IF ~authHeader.bearer
    THEN 401
    ELSE IF ~authHeader.valid
    THEN 401
    ELSE 0

\* requireRoles letting every authenticated role through
requireRolesStatus_AnyRole(roles, authHeader) == 0

\* requireRoles(...roles): req.user is the payload of the verified token

requireRolesStatus(roles, authHeader) ==
    IF authHeader.role \notin roles THEN 403 ELSE 0

\* a route: authAndRequireRoles(...roles) in front of the controller's handler
Route(authHeader, roles, Handler) ==
    IF authenticateTokenStatus(authHeader) # 0
    THEN /\ response' = [status |-> authenticateTokenStatus(authHeader),
                         by |-> "authenticateToken"]
         /\ UNCHANGED <<users, classes, students, nextUserId, nextClassId,
                        nextStudentId, last, calls>>
    ELSE IF requireRolesStatus(roles, authHeader) # 0
    THEN /\ response' = [status |-> requireRolesStatus(roles, authHeader),
                         by |-> "requireRoles"]
         /\ UNCHANGED <<users, classes, students, nextUserId, nextClassId,
                        nextStudentId, last, calls>>
    ELSE Handler

\* --------------------------------------------------------- controllers

\* error.message.includes(part), for the messages the services throw
includes(message, part) ==
    <<message, part>> \in
        {<<ErrClassExists, "already exists">>,
         <<ErrEmailExists, "already exists">>,
         <<ErrPassword, "Password validation failed">>,
         <<ErrAlreadyEnrolled, "already enrolled">>,
         <<ErrNoSuchClass, "does not exist">>,
         <<ErrHasStudents, "Cannot delete class with enrolled students">>}

\* a controller's handler: the service call, then the response for its outcome
Handle(by, ServiceCall, status(_)) ==
    /\ ServiceCall
    /\ response' = [status |-> status(last'.res), by |-> by]
    /\ UNCHANGED calls

\* AuthController.register (POST /auth/register)
registerStatus(res) ==
    IF res = OK THEN 201
    ELSE IF includes(res, "already exists") THEN 409
    ELSE IF includes(res, "Password validation failed") THEN 400
    ELSE 500

AuthController_register(name, email, role, passwordValid) ==
    Handle("AuthController.register",
           registerUser(name, email, role, passwordValid), registerStatus)

\* ClassController.createClass (POST /classes): passes name and section only
createClassStatus(res) ==
    IF res = OK THEN 201
    ELSE IF includes(res, "already exists") THEN 409
    ELSE 500

ClassController_createClass(name, section) ==
    Handle("ClassController.createClass", createClass(name, section, NULL),
           createClassStatus)

\* ClassController.getClasses (GET /classes): any error is answered 500
getClassesStatus(res) == IF res = OK THEN 200 ELSE 500

ClassController_getClasses ==
    Handle("ClassController.getClasses", getClasses(NULL), getClassesStatus)

\* ClassController.updateClass (PUT /classes/:id)
updateClassStatus(res) ==
    IF res = OK THEN 200
    ELSE IF res = ErrClassNotFound THEN 404
    ELSE IF includes(res, "already exists") THEN 409
    ELSE 500

ClassController_updateClass(id, name, section) ==
    Handle("ClassController.updateClass", updateClass(id, name, section),
           updateClassStatus)

\* ClassController.deleteClass (DELETE /classes/:id)
deleteClassStatus(res) ==
    IF res = OK THEN 200
    ELSE IF res = ErrClassNotFound THEN 404
    ELSE IF includes(res, "Cannot delete class with enrolled students") THEN 400
    ELSE 500

ClassController_deleteClass(id) ==
    Handle("ClassController.deleteClass", deleteClass(id), deleteClassStatus)

\* ClassController.enrollStudent (POST /classes/:id/enroll)
enrollStudentStatus(res) ==
    IF res = OK THEN 200
    ELSE IF res = ErrClassNotFound \/ res = ErrStudentNotFound THEN 404
    ELSE IF includes(res, "already enrolled") THEN 409
    ELSE 500

ClassController_enrollStudent(classId, studentId) ==
    Handle("ClassController.enrollStudent", enrollStudent(classId, studentId),
           enrollStudentStatus)

\* ClassController.assignTeacherToClass (PUT /classes/:id/assign-teacher):
\* the route names this handler; its failure mapping is the interface table's
assignTeacherToClassStatus(res) ==
    IF res = OK THEN 200
    ELSE IF res = ErrClassNotFound THEN 404
    ELSE 400

ClassController_assignTeacherToClass(classId, teacherId) ==
    Handle("ClassController.assignTeacherToClass",
           assignTeacherToClass(classId, teacherId), assignTeacherToClassStatus)

\* ClassController.removeTeacherFromClass (DELETE /classes/:id/remove-teacher)
removeTeacherFromClassStatus(res) ==
    IF res = OK THEN 200 ELSE 404

ClassController_removeTeacherFromClass(classId) ==
    Handle("ClassController.removeTeacherFromClass",
           removeTeacherFromClass(classId), removeTeacherFromClassStatus)

\* StudentController.createStudent (POST /students)
createStudentStatus(res) ==
    IF res = OK THEN 201
    ELSE IF includes(res, "does not exist") THEN 400
    ELSE 500

StudentController_createStudent(name, age, classId) ==
    Handle("StudentController.createStudent", createStudent(name, age, classId),
           createStudentStatus)

\* StudentController.updateStudent (PUT /students/:id)
updateStudentStatus(res) ==
    IF res = OK THEN 200
    ELSE IF res = ErrStudentNotFound THEN 404
    ELSE IF includes(res, "does not exist") THEN 400
    ELSE 500

StudentController_updateStudent(id, name, age, classId) ==
    Handle("StudentController.updateStudent",
           updateStudent(id, name, age, classId), updateStudentStatus)

\* StudentController.deleteStudent (DELETE /students/:id)
deleteStudentStatus(res) ==
    IF res = OK THEN 200
    ELSE IF res = ErrStudentNotFound THEN 404
    ELSE 500

StudentController_deleteStudent(id) ==
    Handle("StudentController.deleteStudent", deleteStudent(id),
           deleteStudentStatus)

\* ------------------------------------------------------ specifications

\* a service operation called directly and alone: no response is written and
\* no overlapping call moves
Direct(A) == A /\ UNCHANGED <<response, calls>>

ClassNames == {"Math", "Science"}
Sections == {"A", "B"}

\* ids a request may name: those handed out so far and one never handed out
UserIds == 1..nextUserId
ClassIds == 1..nextClassId
StudentIds == 1..nextStudentId

\* All service operations, sequentially, over a small store.
Next ==
    \/ /\ nextUserId <= MaxUsers
       /\ nextStudentId <= MaxStudents
       /\ \E r \in Roles, pv \in BOOLEAN :
              Direct(registerUser("Ann", "t@school.edu", r, pv))
    \/ /\ nextClassId <= MaxClasses
       /\ \E s \in Sections, t \in {NULL} \cup UserIds :
              Direct(createClass("Math", s, t))
    \/ \E c \in ClassIds, s \in Sections \cup {Absent} :
           Direct(updateClass(c, Absent, s))
    \/ \E c \in ClassIds : Direct(deleteClass(c))
    \/ \E c \in ClassIds, s \in StudentIds : Direct(enrollStudent(c, s))
    \/ \E s \in StudentIds : Direct(removeStudentFromClass(s))
    \/ \E c \in ClassIds, t \in UserIds : Direct(assignTeacherToClass(c, t))
    \/ \E c \in ClassIds : Direct(removeTeacherFromClass(c))
    \/ /\ nextStudentId <= MaxStudents
       /\ \E c \in {NULL} \cup ClassIds : Direct(createStudent("Bob", 10, c))
    \/ \E s \in StudentIds, n \in {"Bob", Absent}, a \in {10, UNDEFINED},
          c \in {UNDEFINED, NULL} \cup ClassIds :
           Direct(updateStudent(s, n, a, c))
    \/ \E s \in StudentIds : Direct(deleteStudent(s))

Spec == Init /\ [][Next]_vars

\* The enrollment operations over sections of one class (the k-th created is
\* "Math"/k), with at most maxClasses class ids and maxStudents student ids
\* handed out.
NextRoster(maxClasses, maxStudents) ==
    \/ /\ nextClassId <= maxClasses
       /\ Direct(createClass("Math", ToString(nextClassId), NULL))
    \/ \E c \in ClassIds : Direct(deleteClass(c))
    \/ \E c \in ClassIds, s \in StudentIds : Direct(enrollStudent(c, s))
    \/ \E s \in StudentIds : Direct(removeStudentFromClass(s))
    \/ /\ nextStudentId <= maxStudents
       /\ \E c \in {NULL} \cup ClassIds : Direct(createStudent("Ann", 10, c))
    \/ \E s \in StudentIds, c \in {UNDEFINED, NULL} \cup ClassIds :
           Direct(updateStudent(s, Absent, UNDEFINED, c))
    \/ \E s \in StudentIds : Direct(deleteStudent(s))

\* Enough students to fill one section and have one left over.
NextEnroll == NextRoster(EnrollMaxClasses, EnrollMaxStudents)

SpecEnroll == Init /\ [][NextEnroll]_vars

\* A few students moving between the sections.
NextSmallRoster == NextRoster(RosterMaxClasses, RosterMaxStudents)

SpecRoster == Init /\ [][NextSmallRoster]_vars

\* The teacher-assignment operations: one teacher and one admin account, and
\* enough classes (the k-th created is "M"/k) to exceed a teacher's sections.
NextTeach ==
    \/ /\ nextUserId <= TeachMaxUsers
       /\ \E r \in {"teacher", "admin"} :
              Direct(registerUser("Ann", IF r = "teacher" THEN "t@school.edu"
                                  ELSE "u@school.edu", r, TRUE))
    \/ /\ nextClassId <= TeachMaxClasses
       /\ \E t \in {NULL} \cup UserIds :
              Direct(createClass("M", ToString(nextClassId), t))
    \/ \E c \in ClassIds : Direct(updateClass(c, "M", Absent))
    \/ \E c \in ClassIds : Direct(deleteClass(c))
    \/ \E c \in ClassIds, t \in UserIds : Direct(assignTeacherToClass(c, t))
    \/ \E c \in ClassIds : Direct(removeTeacherFromClass(c))

SpecTeach == Init /\ [][NextTeach]_vars

\* Class naming: createClass and updateClass over two names and two sections.
NextNames ==
    \/ /\ nextClassId <= NameMaxClasses
       /\ \E n \in ClassNames, s \in Sections : Direct(createClass(n, s, NULL))
    \/ \E c \in ClassIds, n \in ClassNames \cup {Absent},
          s \in Sections \cup {Absent} :
           Direct(updateClass(c, n, s))

SpecNames == Init /\ [][NextNames]_vars

\* Every class, student and teacher operation over one class and enough
\* students to fill it (a second createClass is tried only while the first
\* class is there to refuse it).
NextFrame ==
    \/ /\ nextUserId <= FrameMaxUsers
       /\ Direct(registerUser("Ann", "t@school.edu", "teacher", TRUE))
    \/ /\ nextClassId <= FrameMaxClasses \/ classes # {}
       /\ \E t \in {NULL} \cup UserIds : Direct(createClass("Math", "A", t))
    \/ \E c \in ClassIds : Direct(updateClass(c, Absent, "A"))
    \/ \E c \in ClassIds : Direct(deleteClass(c))
    \/ \E c \in ClassIds, s \in StudentIds : Direct(enrollStudent(c, s))
    \/ \E s \in StudentIds : Direct(removeStudentFromClass(s))
    \/ \E c \in ClassIds, t \in UserIds : Direct(assignTeacherToClass(c, t))
    \/ \E c \in ClassIds : Direct(removeTeacherFromClass(c))
    \/ /\ nextStudentId <= FrameMaxStudents
       /\ \E c \in {NULL} \cup ClassIds : Direct(createStudent("Bob", 10, c))
    \/ \E s \in StudentIds, c \in {UNDEFINED} \cup ClassIds :
           Direct(updateStudent(s, Absent, UNDEFINED, c))
    \/ \E s \in StudentIds : Direct(deleteStudent(s))

SpecFrame == Init /\ [][NextFrame]_vars

\* the e-mail address each role registers with
emailOf(role) ==
    [admin |-> "a@school.edu", teacher |-> "t@school.edu",
     student |-> "s@school.edu"][role]

\* the class router
PostClasses(h, name, section) ==
    Route(h, {"admin"}, ClassController_createClass(name, section))

GetClasses(h) ==
    Route(h, {"admin", "teacher", "student"}, ClassController_getClasses)

PutClass(h, id, name, section) ==
    Route(h, {"admin"}, ClassController_updateClass(id, name, section))

DeleteClass(h, id) ==
    Route(h, {"admin"}, ClassController_deleteClass(id))

PostEnroll(h, classId, studentId) ==
    Route(h, {"admin", "teacher"},
          ClassController_enrollStudent(classId, studentId))

PutAssignTeacher(h, classId, teacherId) ==
    Route(h, {"admin"}, ClassController_assignTeacherToClass(classId, teacherId))

DeleteRemoveTeacher(h, classId) ==
    Route(h, {"admin"}, ClassController_removeTeacherFromClass(classId))

\* the student router
\* POST /students open to teachers as the read routes are
PostStudents_AdminTeacher(h, name, age, classId) ==
    Route(h, {"admin", "teacher"},
          StudentController_createStudent(name, age, classId))

PostStudents(h, name, age, classId) ==
    Route(h, {"admin"}, StudentController_createStudent(name, age, classId))

PutStudent(h, id, name, age, classId) ==
    Route(h, {"admin"}, StudentController_updateStudent(id, name, age, classId))

DeleteStudent(h, id) ==
    Route(h, {"admin"}, StudentController_deleteStudent(id))

\* the auth router: register is public
PostRegister(name, email, role, passwordValid) ==
    AuthController_register(name, email, role, passwordValid)

\* Requests to the routes of the auth, class and student routers, each with
\* any Authorization header: none, a bad token, or an account's access token.
NextHttp ==
    \/ /\ nextUserId <= HttpMaxUsers
       /\ nextStudentId <= HttpMaxStudents
       /\ \E r \in Roles : PostRegister("Ann", emailOf(r), r, TRUE)
    \/ /\ nextClassId <= HttpMaxClasses
       /\ \E h \in Headers : PostClasses(h, "Math", "A")
    \/ \E h \in Headers : GetClasses(h)
    \/ \E h \in Headers, c \in ClassIds : PutClass(h, c, Absent, "B")
    \/ \E h \in Headers, c \in ClassIds : DeleteClass(h, c)
    \/ \E h \in Headers, c \in ClassIds, s \in StudentIds : PostEnroll(h, c, s)
    \/ \E h \in Headers, c \in ClassIds, t \in UserIds : PutAssignTeacher(h, c, t)
    \/ \E h \in Headers, c \in ClassIds : DeleteRemoveTeacher(h, c)
    \/ /\ nextStudentId <= HttpMaxStudents
       /\ \E h \in Headers, c \in {NULL} \cup ClassIds :
              PostStudents(h, "Bob", 10, c)
    \/ \E h \in Headers, s \in StudentIds, c \in {UNDEFINED, NULL} \cup ClassIds :
           PutStudent(h, s, Absent, UNDEFINED, c)
    \/ \E h \in Headers, s \in StudentIds : DeleteStudent(h, s)

SpecHttp == Init /\ [][NextHttp]_vars

\* Requests that fill one class: an admin registers, creates the class,
\* creates students and enrolls them.
NextCapacity ==
    \/ /\ users = {}
       /\ PostRegister("Ann", emailOf("admin"), "admin", TRUE)
    \/ /\ classes = {}
       /\ \E h \in Headers : PostClasses(h, "Math", "A")
    \/ \E h \in Headers, c \in ClassIds, s \in StudentIds : PostEnroll(h, c, s)
    \/ /\ nextStudentId <= CapacityMaxStudents
       /\ \E h \in Headers, c \in {NULL} \cup ClassIds :
              PostStudents(h, "Bob", 10, c)

SpecCapacity == Init /\ [][NextCapacity]_vars

\* Overlapping enrollStudent calls against the store that createClass and
\* createStudent leave: class 1 with students 1..4, the later students in no
\* class.
InitRace ==
    /\ users = {}
    /\ classes = {[id |-> 1, name |-> "Math", section |-> "A", teacherId |-> NULL]}
    /\ students = {[id |-> i, name |-> "Ann", age |-> 10,
                    classId |-> IF i <= 4 THEN 1 ELSE NULL] : i \in 1..RaceStudents}
    /\ nextUserId = 1
    /\ nextClassId = 2
    /\ nextStudentId = RaceStudents + 1
    /\ last = [op |-> "createStudent", res |-> OK]
    /\ response = [status |-> 0, by |-> "none"]
    /\ calls = [i \in 1..MaxCalls |-> idleCall]

NextRace ==
    \/ \E i \in 1..MaxCalls, c \in ClassIds, s \in StudentIds :
           enrollStudentCall(i, c, s)
    \/ \E i \in 1..MaxCalls : enrollStudentGetClass(i)
    \/ \E i \in 1..MaxCalls : enrollStudentSelectStudent(i)
    \/ \E i \in 1..MaxCalls : enrollStudentCount(i)
    \/ \E i \in 1..MaxCalls : enrollStudentUpdate(i)

SpecRace == InitRace /\ [][NextRace]_vars

\* Listing: students of three names, some sharing a name, in and out of two
\* classes, read page by page.
Pages == 1..ListMaxPage
Limits == (1..ListMaxLimit) \cup {MaxLimit}

NextList ==
    \/ /\ nextClassId <= ListMaxClasses
       /\ Direct(createClass("Math", ToString(nextClassId), NULL))
    \/ /\ nextStudentId <= ListMaxStudents
       /\ \E n \in {"Ann", "Bob", "Eve"}, c \in {NULL} \cup ClassIds :
              Direct(createStudent(n, 10, c))
    \/ \E s \in StudentIds : Direct(deleteStudent(s))
    \/ \E p \in {NULL} \cup Pages, l \in {NULL} \cup Limits,
          c \in {NULL} \cup ClassIds :
           Direct(getStudents(p, l, c))

SpecList == Init /\ [][NextList]_vars

\* The dashboard: accounts, one class, and students in it and out of it.
NextAdmin ==
    \/ /\ nextUserId <= AdminMaxUsers
       /\ nextStudentId <= AdminMaxStudents
       /\ \E r \in {"teacher", "student"} :
              Direct(registerUser("Ann", emailOf(r), r, TRUE))
    \/ /\ nextClassId <= AdminMaxClasses
       /\ Direct(createClass("Math", "A", NULL))
    \/ /\ nextStudentId <= AdminMaxStudents
       /\ \E c \in {NULL} \cup ClassIds : Direct(createStudent("Bob", 10, c))
    \/ \E c \in ClassIds, s \in StudentIds : Direct(enrollStudent(c, s))
    \/ \E s \in StudentIds : Direct(removeStudentFromClass(s))
    \/ \E s \in StudentIds : Direct(deleteStudent(s))
    \/ Direct(getDashboardStats)

SpecAdmin == Init /\ [][NextAdmin]_vars

\* Listing classes: two teachers, classes over two names and two sections
\* with or without a teacher, and students in them.
NextClassList ==
    \/ /\ nextUserId <= ClassListMaxUsers
       /\ Direct(registerUser("Ann", IF nextUserId = 1 THEN "t@school.edu"
                               ELSE "u@school.edu", "teacher", TRUE))
    \/ /\ nextClassId <= ClassListMaxClasses
       /\ \E n \in ClassNames, s \in Sections, u \in {NULL} \cup UserIds :
              Direct(createClass(n, s, u))
    \/ /\ nextStudentId <= ClassListMaxStudents
       /\ \E c \in {NULL} \cup ClassIds : Direct(createStudent("Bob", 10, c))
    \/ \E u \in {NULL} \cup UserIds : Direct(getClasses(u))

SpecClassList == Init /\ [][NextClassList]_vars

\* Overlapping assignTeacherToClass and createClass calls against the store
\* that registerUser, createClass and assignTeacherToClass leave: teacher 1
\* owns classes "M"/1..4, the later classes have no teacher.
InitTeachRace ==
    /\ users = {[id |-> 1, name |-> "Ann", email |-> "t@school.edu",
                 role |-> "teacher"]}
    /\ classes = {[id |-> i, name |-> "M", section |-> ToString(i),
                   teacherId |-> IF i <= 4 THEN 1 ELSE NULL] :
                      i \in 1..TeachRaceClasses}
    /\ students = {}
    /\ nextUserId = 2
    /\ nextClassId = TeachRaceClasses + 1
    /\ nextStudentId = 1
    /\ last = [op |-> "assignTeacherToClass", res |-> OK]
    /\ response = [status |-> 0, by |-> "none"]
    /\ calls = [i \in 1..MaxCalls |-> idleTeachCall]

NextTeachRace ==
    \/ \E i \in 1..MaxCalls, c \in ClassIds, u \in UserIds :
           assignTeacherToClassCall(i, c, u)
    \/ \E i \in 1..MaxCalls : assignTeacherToClassGetClass(i)
    \/ \E i \in 1..MaxCalls : assignTeacherToClassSelectTeacher(i)
    \/ \E i \in 1..MaxCalls : assignTeacherToClassCount(i)
    \/ \E i \in 1..MaxCalls : assignTeacherToClassUpdate(i)
    \/ \E i \in 1..MaxCalls, u \in {NULL} \cup UserIds :
           createClassCall(i, ToString(TeachRaceClasses + 1), u)
    \/ \E i \in 1..MaxCalls : createClassSelectExisting(i)
    \/ \E i \in 1..MaxCalls : createClassSelectTeacher(i)
    \/ \E i \in 1..MaxCalls : createClassInsert(i)

SpecTeachRace == InitTeachRace /\ [][NextTeachRace]_vars

\* Changing class: every student is created in class 1, so a student is in
\* another class only once enrollStudent has moved it there.
NextMove ==
    \/ /\ nextClassId <= MoveMaxClasses
       /\ Direct(createClass("Math", ToString(nextClassId), NULL))
    \/ /\ nextStudentId <= MoveMaxStudents
       /\ classes # {}
       /\ Direct(createStudent("Ann", 10, 1))
    \/ \E c \in ClassIds, s \in StudentIds : Direct(enrollStudent(c, s))

SpecMove == Init /\ [][NextMove]_vars

\* Clearing a class reference: every student is created in a class, and only
\* updateStudent, with classId null or omitted, touches it afterwards.
NextClear ==
    \/ /\ nextClassId <= ClearMaxClasses
       /\ Direct(createClass("Math", ToString(nextClassId), NULL))
    \/ /\ nextStudentId <= ClearMaxStudents
       /\ \E c \in ClassIds : Direct(createStudent("Ann", 10, c))
    \/ \E s \in StudentIds, n \in {Absent, "Bob"}, c \in {UNDEFINED, NULL} :
           Direct(updateStudent(s, n, UNDEFINED, c))

SpecClear == Init /\ [][NextClear]_vars

\* A deleteClass call overlapping enrollStudent, createStudent and
\* updateStudent calls, against the store that createClass and createStudent
\* leave: empty classes and students in no class.
InitDeleteRace ==
    /\ users = {}
    /\ classes = {[id |-> i, name |-> "Math", section |-> ToString(i),
                   teacherId |-> NULL] : i \in 1..DeleteRaceClasses}
    /\ students = {[id |-> i, name |-> "Ann", age |-> 10, classId |-> NULL] :
                      i \in 1..DeleteRaceStudents}
    /\ nextUserId = 1
    /\ nextClassId = DeleteRaceClasses + 1
    /\ nextStudentId = DeleteRaceStudents + 1
    /\ last = [op |-> "createStudent", res |-> OK]
    /\ response = [status |-> 0, by |-> "none"]
    /\ calls = [i \in 1..MaxCalls |-> idleCall]

NextDeleteRace ==
    \/ \E i \in 1..MaxCalls, c \in 1..DeleteRaceClasses : deleteClassCall(i, c)
    \/ \E i \in 1..MaxCalls : deleteClassGetClass(i)
    \/ \E i \in 1..MaxCalls : deleteClassCount(i)
    \/ \E i \in 1..MaxCalls : deleteClassDelete(i)
    \/ \E i \in 1..MaxCalls, c \in 1..DeleteRaceClasses,
          s \in 1..DeleteRaceStudents :
           enrollStudentCall(i, c, s)
    \/ \E i \in 1..MaxCalls : enrollStudentGetClass(i)
    \/ \E i \in 1..MaxCalls : enrollStudentSelectStudent(i)
    \/ \E i \in 1..MaxCalls : enrollStudentCount(i)
    \/ \E i \in 1..MaxCalls : enrollStudentUpdate(i)
    \/ \E i \in 1..MaxCalls, c \in 1..DeleteRaceClasses : createStudentCall(i, c)
    \/ \E i \in 1..MaxCalls : createStudentSelectClass(i)
    \/ \E i \in 1..MaxCalls : createStudentCount(i)
    \/ \E i \in 1..MaxCalls : createStudentInsert(i)
    \/ \E i \in 1..MaxCalls : createStudentFetch(i)
    \/ \E i \in 1..MaxCalls, c \in {NULL} \cup (1..DeleteRaceClasses),
          s \in 1..DeleteRaceStudents :
           updateStudentCall(i, s, c)
    \/ \E i \in 1..MaxCalls : updateStudentGetStudent(i)
    \/ \E i \in 1..MaxCalls : updateStudentSelectClass(i)
    \/ \E i \in 1..MaxCalls : updateStudentCount(i)
    \/ \E i \in 1..MaxCalls : updateStudentUpdate(i)
    \/ \E i \in 1..MaxCalls : updateStudentFetch(i)

SpecDeleteRace == InitDeleteRace /\ [][NextDeleteRace]_vars

\* ------------------------------------------------------------- claims

\* C1: after any sequence of sequential createStudent, updateStudent,
\* deleteStudent, enrollStudent, removeStudentFromClass and deleteClass calls
\* from an empty store, every class has at most 5 students whose classId is
\* its id.
C1_SectionNeverOverFull ==
    \A c \in classes : Cardinality({s \in students : s.classId = c.id}) <= 5

\* a section holds 5 students, a sixth student exists outside it, and the
\* last call was turned away because the section is full
C1_Witness ==
    /\ last.res = ErrSectionFull
    /\ \E c \in classes :
           /\ Cardinality({s \in students : s.classId = c.id}) = 5
           /\ \E s \in students : s.classId # c.id

\* C2: after any sequence of sequential createClass (with or without
\* teacherId), updateClass, assignTeacherToClass, removeTeacherFromClass and
\* deleteClass calls, no teacher account is the teacherId of more than 5
\* classes.
C2_TeacherNeverOverLimit ==
    \A u \in users :
        u.role = "teacher" =>
            Cardinality({c \in classes : c.teacherId = u.id}) <= 5

\* C3: after any sequence of sequential createClass and updateClass calls, no
\* two distinct classes have the same (name, section) pair.
C3_NameSectionUnique ==
    \A c1 \in classes, c2 \in classes :
        c1.id # c2.id => (c1.name # c2.name \/ c1.section # c2.section)

\* C4: enrollStudent(c, s), with class c existing and holding 5 students and
\* student s existing and not in c, fails with the section-full error
\* (CapacityExceeded) and leaves the class reference of s and every other
\* student record as it was.
C4_EnrollIntoFullSectionFails ==
    \A c \in classes, s \in students :
        ( /\ Cardinality({x \in students : x.classId = c.id}) = 5
          /\ s.classId # c.id )
        => ( /\ enrollStudentResult(c.id, s.id) = ErrSectionFull
             /\ enrollStudentAfter(c.id, s.id) = students )

\* an enrollStudent call has just been turned away from a section of 5
C4_Witness ==
    /\ last.op = "enrollStudent"
    /\ last.res = ErrSectionFull
    /\ \E c \in classes : Cardinality({s \in students : s.classId = c.id}) = 5

\* C5: if teacher t already owns exactly 5 classes, assignTeacherToClass(c, t)
\* for a class c already assigned to t succeeds and t still owns exactly 5
\* classes.
C5_ReassignSameTeacherSucceeds ==
    [][\A c \in ClassIds, t \in UserIds :
          ( /\ \E k \in classes : k.id = c /\ k.teacherId = t
            /\ Cardinality({k \in classes : k.teacherId = t}) = 5
            /\ assignTeacherToClass(c, t) )
          => ( /\ last'.res = OK
               /\ Cardinality({k \in classes' : k.teacherId = t}) = 5 )]_vars

\* C6: createClass(name, section, teacherId), where teacherId is a teacher
\* account already owning 5 classes, fails with the teacher-limit error
\* (CapacityExceeded) and inserts no class row.
C6_CreateClassForFullTeacherFails ==
    [][\A t \in UserIds :
          ( /\ \E u \in users : u.id = t /\ u.role = "teacher"
            /\ Cardinality({k \in classes : k.teacherId = t}) = 5
            /\ createClass("M", ToString(nextClassId), t) )
          => (last'.res = ErrTeacherLimit /\ UNCHANGED classes)]_vars

\* C7: for a class c with a free seat and a student s not in c, once
\* enrollStudent(c, s) has succeeded an immediately following
\* enrollStudent(c, s) fails with the already-enrolled error (Conflict) and s
\* stays assigned to c.
C7_EnrollTwiceConflicts ==
    [][last'.op = "enrollStudent" => \A c \in ClassIds, s \in StudentIds :
          /\ (enrollStudent(c, s) /\ last'.res = OK)
             => ( /\ \E x \in students' : x.id = s /\ x.classId = c
                  /\ (enrollStudentResult(c, s))' = ErrAlreadyEnrolled )
          /\ ( /\ \E k \in classes : k.id = c
               /\ \E x \in students : x.id = s /\ x.classId = c
               /\ enrollStudent(c, s) )
             => (last'.res = ErrAlreadyEnrolled /\ UNCHANGED store)]_vars

\* a second enrollStudent of a student into the class it is in was refused
C7_Witness ==
    /\ last.op = "enrollStudent"
    /\ last.res = ErrAlreadyEnrolled
    /\ \E s \in students : s.classId # NULL

\* C8: removeStudentFromClass of an existing student whose classId is null
\* fails with the not-enrolled error (PreconditionFailed) and changes
\* nothing; of a student assigned to a class it succeeds, and getStudentById
\* then shows classId null and a null class summary.
C8_Unenroll ==
    [][last'.op = "removeStudentFromClass" => \A s \in StudentIds :
          /\ ( /\ \E x \in students : x.id = s /\ x.classId = NULL
               /\ removeStudentFromClass(s) )
             => (last'.res = ErrNotEnrolled /\ UNCHANGED store)
          /\ ( /\ \E x \in students : x.id = s /\ x.classId # NULL
               /\ removeStudentFromClass(s) )
             => ( /\ last'.res = OK
                  /\ (getStudentByIdResult(s))' = OK
                  /\ (getStudentById(s))'.classId = NULL
                  /\ (getStudentById(s))'.class = {} )]_vars

\* a removeStudentFromClass call has just succeeded, leaving an unassigned
\* student while a class exists
C8_Witness ==
    /\ last.op = "removeStudentFromClass"
    /\ last.res = OK
    /\ classes # {}
    /\ \E s \in students : s.classId = NULL /\ getStudentById(s.id).class = {}

\* C9: deleteClass(c) fails with the has-students error (PreconditionFailed)
\* and leaves c in place whenever some student has classId = c; whenever c
\* exists and no student references it, it succeeds and removes c.
C9_DeleteClass ==
    [][last'.op = "deleteClass" => \A c \in ClassIds :
          /\ ( /\ \E k \in classes : k.id = c
               /\ \E x \in students : x.classId = c
               /\ deleteClass(c) )
             => (last'.res = ErrHasStudents /\ UNCHANGED store)
          /\ ( /\ \E k \in classes : k.id = c
               /\ ~ \E x \in students : x.classId = c
               /\ deleteClass(c) )
             => ( /\ last'.res = OK
                  /\ ~ \E k \in classes' : k.id = c
                  /\ {k \in classes' : k.id # c} = {k \in classes : k.id # c}
                  /\ UNCHANGED <<users, students>> )]_vars

\* a deleteClass call has just been refused because a student is enrolled
C9_Witness ==
    /\ last.op = "deleteClass"
    /\ last.res = ErrHasStudents
    /\ \E s \in students : s.classId # NULL

\* C10: updateStudent(id, {classId: c}) with c the student's current class
\* never fails because of capacity: it succeeds even when c holds 5 students,
\* and the student stays in c.
C10_UpdateToSameClassSucceeds ==
    \A s \in students :
        s.classId # NULL =>
            \A n \in {Absent, "Ann"}, a \in {UNDEFINED, 10} :
                /\ updateStudentResult(s.id, n, a, s.classId) = OK
                /\ \E x \in updateStudentAfter(s.id, n, a, s.classId) :
                       x.id = s.id /\ x.classId = s.classId

\* an updateStudent call has just succeeded on a store whose only students
\* are the 5 of a full section
C10_Witness ==
    /\ last.op = "updateStudent"
    /\ last.res = OK
    /\ Cardinality(students) = 5
    /\ \E c \in classes : \A s \in students : s.classId = c.id

\* C11: for an existing class c with a free seat, createStudent(name, age, c)
\* succeeds and returns a new id, and getStudentById of that id then yields
\* the same name and age, classId = c, and a class summary whose id, name and
\* section are those of class c.
C11_CreateThenGet ==
    [][last'.op = "createStudent" => \A c \in ClassIds, id \in {nextStudentId} :
          ( /\ classRows(c) # {}
            /\ studentCount(c) < 5
            /\ createStudent("Ann", 10, c) )
          => ( /\ last'.res = OK
               /\ (getStudentByIdResult(id))' = OK
               /\ (getStudentById(id))' =
                      [id |-> id, name |-> "Ann", age |-> 10, classId |-> c,
                       class |-> {[id |-> k.id, name |-> k.name,
                                   section |-> k.section] : k \in classRows(c)}]
               /\ Cardinality((getStudentById(id))'.class) = 1 )]_vars

\* a student has just been created in a class and reads back with that
\* class's summary
C11_Witness ==
    /\ last.op = "createStudent"
    /\ last.res = OK
    /\ \E s \in students :
           /\ s.id = nextStudentId - 1
           /\ s.classId # NULL
           /\ \E k \in classes : getStudentById(s.id).class =
                  {[id |-> k.id, name |-> k.name, section |-> k.section]}

\* the core operations of the class and student services
CoreOps ==
    {"createClass", "updateClass", "deleteClass", "createStudent",
     "updateStudent", "deleteStudent", "enrollStudent",
     "removeStudentFromClass", "assignTeacherToClass", "removeTeacherFromClass"}

\* C12: a core operation (createClass, updateClass, deleteClass,
\* createStudent, updateStudent, deleteStudent, enrollStudent,
\* removeStudentFromClass, assignTeacherToClass, removeTeacherFromClass) that
\* fails leaves the users, classes and students tables exactly as they were;
\* a createStudent whose class-existence or capacity check fails inserts no
\* student row.
C12_FailureChangesNothing ==
    [][(last'.op \in CoreOps /\ last'.res # OK)
          => UNCHANGED <<users, classes, students>>]_vars

\* createStudent has just been refused by the capacity check, and the full
\* section still holds its 5 students
C12_Witness ==
    /\ last.op = "createStudent"
    /\ last.res = ErrSectionFull
    /\ \E c \in classes : studentCount(c.id) = 5
    /\ Cardinality(students) = 5

\* C13: when several failure conditions hold at once the reported failure
\* follows the precedence NotFound, InvalidReference, Conflict,
\* CapacityExceeded: createClass with a teacherId that names no teacher
\* reports the invalid-teacher error (InvalidReference) even when the
\* (name, section) pair is also a duplicate; enrollStudent reports a
\* not-found error when the class or the student is absent, else the
\* already-enrolled error (Conflict) when the student is in the class, else
\* the section-full error when the class holds 5; assignTeacherToClass
\* reports class-not-found before not-a-teacher before the teacher limit.
C13_ErrorPrecedence ==
    [][/\ last'.op = "createClass" =>
             \A t \in UserIds :
                 (teacherRows(t) = {} /\ createClass("Math", "A", t))
                 => last'.res = ErrInvalidTeacher
       /\ last'.op = "enrollStudent" =>
             \A c \in ClassIds, s \in StudentIds :
                 enrollStudent(c, s) =>
                     IF classRows(c) = {} \/ studentRows(s) = {}
                     THEN last'.res \in {ErrClassNotFound, ErrStudentNotFound}
                     ELSE IF theRow(studentRows(s)).classId = c
                     THEN last'.res = ErrAlreadyEnrolled
                     ELSE IF studentCount(c) >= 5
                     THEN last'.res = ErrSectionFull
                     ELSE last'.res = OK
       /\ last'.op = "assignTeacherToClass" =>
             \A c \in ClassIds, t \in UserIds :
                 assignTeacherToClass(c, t) =>
                     IF classRows(c) = {}
                     THEN last'.res = ErrClassNotFound
                     ELSE teacherRows(t) = {} => last'.res = ErrNotTeacher]_vars

\* C14: at the HTTP boundary a section-full failure (CapacityExceeded) of
\* POST /classes/:id/enroll or of POST /students is answered with status 400,
\* never 500; a not-found failure of enroll is answered 404 and an
\* already-enrolled failure (Conflict) 409.
C14_CapacityFailureIs400 ==
    /\ response.by = "ClassController.enrollStudent" =>
           /\ last.res = ErrSectionFull => response.status = 400
           /\ last.res \in {ErrClassNotFound, ErrStudentNotFound}
                  => response.status = 404
           /\ last.res = ErrAlreadyEnrolled => response.status = 409
    /\ response.by = "StudentController.createStudent" =>
           (last.res = ErrSectionFull => response.status = 400)

\* some state-mutating admin-only request (create/update/delete class,
\* assign/remove teacher, create/update/delete student) made with header h
AdminRequest(h) ==
    \/ PostClasses(h, "Math", "A")
    \/ \E c \in ClassIds : PutClass(h, c, Absent, "B")
    \/ \E c \in ClassIds : DeleteClass(h, c)
    \/ \E c \in ClassIds, t \in UserIds : PutAssignTeacher(h, c, t)
    \/ \E c \in ClassIds : DeleteRemoveTeacher(h, c)
    \/ \E c \in {NULL} \cup ClassIds : PostStudents(h, "Bob", 10, c)
    \/ \E x \in StudentIds, c \in {UNDEFINED, NULL} \cup ClassIds :
           PutStudent(h, x, Absent, UNDEFINED, c)
    \/ \E x \in StudentIds : DeleteStudent(h, x)

\* an enroll request made with header h
EnrollRequest(h) == \E c \in ClassIds, x \in StudentIds : PostEnroll(h, c, x)

\* the response of a request the middleware turned away, the handler not
\* run and the store as it was
Refused(status) ==
    /\ response'.status = status
    /\ response'.by \in {"authenticateToken", "requireRoles"}
    /\ UNCHANGED <<users, classes, students, nextUserId, nextClassId,
                   nextStudentId, last>>

\* C15: a state-mutating request (create/update/delete class,
\* create/update/delete student, assign/remove teacher, enroll) reaches its
\* handler only with a valid access token whose role is admin (admin or
\* teacher for enroll); with a missing or invalid token it is answered 401,
\* with a disallowed role 403, and in both cases the handler is not run and
\* the store is unchanged.
C15_MutationsAreGated ==
    [][\A h \in Headers :
          /\ ~(h.bearer /\ h.valid) =>
                 (Refused(401) \/ ~(AdminRequest(h) \/ EnrollRequest(h)))
          /\ (h.bearer /\ h.valid /\ h.role # "admin") =>
                 (Refused(403) \/ ~AdminRequest(h))
          /\ (h.bearer /\ h.valid /\ h.role \notin {"admin", "teacher"}) =>
                 (Refused(403) \/ ~EnrollRequest(h))]_vars

\* a student's token has just been turned away with 403 while a class and a
\* student row exist, and earlier handlers did run
C15_Witness ==
    /\ response = [status |-> 403, by |-> "requireRoles"]
    /\ classes # {}
    /\ students # {}
    /\ \E u \in users : u.role = "student"
    /\ last.op = "enrollStudent"

\* C16: GET /classes is permitted only to callers whose role is admin or
\* teacher; a request with a student's access token is turned away with 403
\* and ClassController.getClasses is not run.
C16_ListClassesAdminTeacherOnly ==
    [][\A h \in Headers :
          (h.bearer /\ h.valid /\ h.role \notin {"admin", "teacher"}
             /\ GetClasses(h))
          => Refused(403)]_vars

\* C17: with two enrollStudent calls for two distinct students interleaved
\* statement by statement against a class that holds 4 students, both calls
\* can return successfully, and whenever both have, both students are in the
\* class and it holds 6 students, more than the limit of 5: the capacity
\* check and the write are not atomic.
C17_BothEnrollPastLimit ==
    \A i \in 1..MaxCalls, j \in 1..MaxCalls :
        ( /\ i # j
          /\ calls[i].pc = "done" /\ calls[i].res = OK
          /\ calls[j].pc = "done" /\ calls[j].res = OK
          /\ calls[i].studentId # calls[j].studentId )
        => ( /\ calls[i].classId = calls[j].classId
             /\ \A k \in {i, j} :
                    theRow(studentRows(calls[k].studentId)).classId
                        = calls[k].classId
             /\ studentCount(calls[i].classId) >= 6 )

\* both calls have returned successfully and the class holds 6 students
C17_Witness ==
    /\ \A i \in 1..2 : calls[i].pc = "done" /\ calls[i].res = OK
    /\ calls[1].studentId # calls[2].studentId
    /\ studentCount(1) = 6

\* this step inserted a student row
StudentInserted == {s.id : s \in students'} \ {s.id : s \in students} # {}

\* C18 as claimed: every student row was inserted by a create-student
\* request (POST /students) made by a caller whose role is admin; no request
\* open to an unauthenticated or non-admin caller inserts a student row.
C18_OnlyAdminCreatesStudents ==
    [][StudentInserted =>
          /\ response'.by = "StudentController.createStudent"
          /\ \A h \in Headers :
                 (\E c \in {NULL} \cup ClassIds : PostStudents(h, "Bob", 10, c))
                 => (h.bearer /\ h.valid /\ h.role = "admin")]_vars

\* C18 as amended: a student row is inserted either by a create-student
\* request made with a valid admin access token, or by a successful public
\* registration with role student, which inserts one row with the account's
\* name, age 18 and no class; no other request inserts a student row.
C18_AdminOrRegistrationCreatesStudents ==
    [][StudentInserted =>
          \/ /\ response'.by = "StudentController.createStudent"
             /\ \A h \in Headers :
                    (\E c \in {NULL} \cup ClassIds : PostStudents(h, "Bob", 10, c))
                    => (h.bearer /\ h.valid /\ h.role = "admin")
          \/ /\ response' = [status |-> 201, by |-> "AuthController.register"]
             /\ \E u \in users' \ users :
                    /\ u.role = "student"
                    /\ students' \ students =
                           {[id |-> nextStudentId, name |-> u.name,
                             age |-> 18, classId |-> NULL]}]_vars

\* a public registration with role student has just inserted a student row
C18_Witness ==
    /\ response = [status |-> 201, by |-> "AuthController.register"]
    /\ \E u \in users, s \in students :
           /\ u.role = "student"
           /\ u.id = nextUserId - 1
           /\ s = [id |-> nextStudentId - 1, name |-> u.name, age |-> 18,
                   classId |-> NULL]

\* C19: createClass(name, section) fails with the already-exists error
\* (Conflict) exactly when some class already has that (name, section) pair,
\* and updateClass(id, {name?, section?}) of an existing class exactly when
\* some other class already has the resulting pair, whichever row the by-name
\* query returns first; both succeed when only the name or only the section
\* coincides with an existing class.
C19_ConflictExactlyOnDuplicatePair ==
    [][/\ last'.op = "createClass" =>
             \A n \in ClassNames, s \in Sections :
                 createClass(n, s, NULL) =>
                     /\ last'.res \in {OK, ErrClassExists}
                     /\ last'.res = ErrClassExists <=>
                            \E k \in classes : k.name = n /\ k.section = s
       /\ last'.op = "updateClass" =>
             \A c \in ClassIds, n \in ClassNames \cup {Absent},
                s \in Sections \cup {Absent} :
                 (classRows(c) # {} /\ updateClass(c, n, s)) =>
                     /\ last'.res \in {OK, ErrClassExists}
                     /\ last'.res = ErrClassExists <=>
                            \E k \in classes :
                                /\ k.id # c
                                /\ k.name = updateClassNewName(c, n)
                                /\ k.section = updateClassNewSection(c, s)]_vars

\* C20: assignTeacherToClass(c, t) fails with class-not-found (NotFound) if
\* class c is absent; otherwise with not-a-teacher (InvalidReference) if no
\* account with id t has role teacher; otherwise with the teacher-limit error
\* (CapacityExceeded) if t already owns 5 classes other than c; otherwise it
\* sets c's teacherId to t.  In every failing case c's teacherId is unchanged.
C20_AssignTeacher ==
    [][last'.op = "assignTeacherToClass" =>
          \A c \in ClassIds, t \in UserIds :
              assignTeacherToClass(c, t) =>
                  IF classRows(c) = {}
                  THEN last'.res = ErrClassNotFound /\ UNCHANGED classes
                  ELSE IF teacherRows(t) = {}
                  THEN last'.res = ErrNotTeacher /\ UNCHANGED classes
                  ELSE IF Cardinality({k \in classes :
                                          k.teacherId = t /\ k.id # c}) >= 5
                  THEN last'.res = ErrTeacherLimit /\ UNCHANGED classes
                  ELSE /\ last'.res = OK
                       /\ \E k \in classes' : k.id = c /\ k.teacherId = t]_vars

\* C21: updateStudent(s, {classId: c2}) for a student s that is in another
\* class c1 or in no class, with class c2 existing, fails with the
\* section-full error (CapacityExceeded) if and only if c2 already holds 5 or
\* more students, and then changes nothing; otherwise it moves s to c2,
\* however many students c1 holds, and s is counted in exactly one class
\* afterwards (c2 gains one, every other class that held s loses one).
C21_MoveGuardedByTargetOnly ==
    \A s \in students, c2 \in classes :
        s.classId # c2.id =>
            LET res == updateStudentResult(s.id, Absent, UNDEFINED, c2.id)
                after == updateStudentAfter(s.id, Absent, UNDEFINED, c2.id)
                countAfter(c) == Cardinality({x \in after : x.classId = c})
            IN  /\ res \in {OK, ErrSectionFull}
                /\ res = ErrSectionFull <=> studentCount(c2.id) >= 5
                /\ res = ErrSectionFull => after = students
                /\ res = OK =>
                       /\ after = (students \ {s}) \cup
                                      {[s EXCEPT !.classId = c2.id]}
                       /\ countAfter(c2.id) = studentCount(c2.id) + 1
                       /\ \A k \in classes :
                              k.id # c2.id =>
                                  countAfter(k.id) = studentCount(k.id) -
                                      (IF s.classId = k.id THEN 1 ELSE 0)
                       /\ Cardinality({k \in classes : \E x \in after :
                                          x.id = s.id /\ x.classId = k.id}) = 1

\* an updateStudent call has just been turned away from a section of 5 while
\* the student it named sits in the other class or in none
C21_Witness ==
    /\ last.op = "updateStudent"
    /\ last.res = ErrSectionFull
    /\ \E c2 \in classes, s \in students :
           /\ studentCount(c2.id) = 5
           /\ s.classId # c2.id

\* C22: in every state reachable by sequential core operations, each
\* student's classId is null or the id of a class that currently exists, and
\* each class's teacherId is null or the id of an account whose role is
\* teacher.
C22_ReferencesResolve ==
    /\ \A s \in students :
           s.classId = NULL \/ \E c \in classes : c.id = s.classId
    /\ \A c \in classes :
           c.teacherId = NULL \/
               \E u \in users : u.id = c.teacherId /\ u.role = "teacher"

\* a class has just been deleted while a student is still in another class
\* and that class has a teacher
C22_Witness ==
    /\ last.op = "deleteClass"
    /\ last.res = OK
    /\ \E s \in students, c \in classes :
           s.classId = c.id /\ c.teacherId # NULL

\* C23: for any store contents, any page >= 1 and any limit from 1 to 100,
\* getStudents (listStudents) returns the students at positions
\* (page-1)*limit+1 .. page*limit of the name-ascending order of the matching
\* students (those of class classId when it is given, else all), each once
\* and with its class summary; it reports totalStudents = the number of
\* matching students and totalPages = ceil(totalStudents / limit), the least
\* n with n*limit >= totalStudents; and it returns an empty list, not an
\* error, when (page-1)*limit >= totalStudents.
C23_ListStudentsPages ==
    \A page \in Pages, limit \in Limits, classId \in {NULL} \cup ClassIds :
        LET matching == {s \in students : classId = NULL \/ s.classId = classId}
            total == Cardinality(matching)
            first == (page - 1) * limit + 1
        IN  \A ordered \in orderByName(whereCondition(classId)) :
                LET r == getStudentsReturn(page, limit, classId, ordered) IN
                /\ {ordered[i] : i \in 1..Len(ordered)} = matching
                /\ Len(ordered) = total
                /\ r.pagination.totalStudents = total
                /\ r.pagination.totalPages * limit >= total
                /\ (r.pagination.totalPages - 1) * limit < total
                /\ r.pagination.totalPages >= 0
                /\ \A i \in 1..Len(r.students) :
                       r.students[i] = getStudentById(ordered[first + i - 1].id)
                /\ \A pos \in first..(page * limit) :
                       pos <= total <=> (pos - first + 1) \in 1..Len(r.students)
                /\ (page - 1) * limit >= total => r.students = <<>>

\* getStudents has just read a store of three students, two of them sharing
\* a name, some in a class and some in none: pages of 2 are one full, one
\* partial and one empty
C23_Witness ==
    /\ last.op = "getStudents"
    /\ Cardinality(students) = 3
    /\ \E s1 \in students, s2 \in students :
           s1.id # s2.id /\ s1.name = s2.name
    /\ \E s1 \in students, s2 \in students :
           s1.name # s2.name /\ s1.classId = NULL /\ s2.classId # NULL

\* C24: removeTeacherFromClass(c) (removeTeacher) on an existing class always
\* succeeds and leaves its teacherId null, whether or not a teacher was
\* assigned, and changes nothing else; applied a second time it succeeds
\* again and leaves the class table as the first application left it; it
\* fails with class-not-found (NotFound) only when c is absent, and then
\* changes nothing.
C24_RemoveTeacherIdempotent ==
    [][last'.op = "removeTeacherFromClass" => \A c \in ClassIds :
          removeTeacherFromClass(c) =>
              IF \E k \in classes : k.id = c
              THEN /\ last'.res = OK
                   /\ \E k \in classes' : k.id = c /\ k.teacherId = NULL
                   /\ {k \in classes' : k.id # c} = {k \in classes : k.id # c}
                   /\ {[id |-> k.id, name |-> k.name, section |-> k.section] :
                           k \in classes'} =
                      {[id |-> k.id, name |-> k.name, section |-> k.section] :
                           k \in classes}
                   /\ UNCHANGED <<users, students>>
                   /\ (removeTeacherFromClassResult(c))' = OK
                   /\ (removeTeacherFromClassSet(c))' = classes'
              ELSE last'.res = ErrClassNotFound /\ UNCHANGED store]_vars

\* removeTeacherFromClass has just succeeded: a class without a teacher
\* stands beside a class that still has one
C24_Witness ==
    /\ last.op = "removeTeacherFromClass"
    /\ last.res = OK
    /\ \E k1 \in classes, k2 \in classes :
           k1.teacherId = NULL /\ k2.teacherId # NULL

C26_ListClasses ==
    \A teacherId \in {NULL} \cup UserIds :
        LET listed == {c \in classes : teacherId = NULL \/ c.teacherId = teacherId}
        IN  /\ getClassesReturn(teacherId) # {}
            /\ \A q \in getClassesReturn(teacherId) :
                   /\ Len(q) = Cardinality(listed)
                   /\ \A c \in listed :
                          Cardinality({i \in 1..Len(q) : q[i].id = c.id}) = 1
                   /\ \A i \in 1..Len(q) : \E c \in listed :
                          q[i] = [id |-> c.id, name |-> c.name,
                                  section |-> c.section,
                                  teacherId |-> c.teacherId,
                                  studentCount |->
                                      Cardinality({s \in students :
                                                      s.classId = c.id}),
                                  teacher |->
                                      {[id |-> u.id, name |-> u.name,
                                        email |-> u.email] :
                                           u \in {x \in users :
                                                     x.id = c.teacherId}}]
                   /\ \A i \in 1..Len(q) :
                          Cardinality(q[i].teacher) =
                              IF q[i].teacherId = NULL THEN 0 ELSE 1
                   /\ \A i, j \in 1..Len(q) :
                          i < j =>
                              /\ nameRank(q[i].name) <= nameRank(q[j].name)
                              /\ q[i].name = q[j].name =>
                                     nameRank(q[i].section) <=
                                         nameRank(q[j].section)

\* getClasses has just read two classes of different names, listed in an
\* order other than that of their ids: one has a teacher and no student, the
\* other a student and no teacher
C26_Witness ==
    /\ last.op = "getClasses"
    /\ \E c1 \in classes, c2 \in classes :
           /\ c1.id < c2.id
           /\ nameRank(c2.name) < nameRank(c1.name)
           /\ c1.teacherId # NULL /\ studentCount(c1.id) = 0
           /\ c2.teacherId = NULL /\ studentCount(c2.id) = 1
           /\ \A q \in getClassesReturn(NULL) : q[1].id = c2.id

\* C27: with two assignTeacherToClass calls (or an assignTeacherToClass and
\* a createClass with teacherId) for the same teacher interleaved statement
\* by statement while that teacher owns 4 classes, both calls can return
\* successfully, and whenever both have, each for a class the teacher did not
\* own, the teacher owns at least 6 classes, more than the limit of 5: the
\* count of the teacher's classes and the write are not atomic.
C27_BothAssignPastLimit ==
    \A i \in 1..MaxCalls, j \in 1..MaxCalls :
        ( /\ i # j
          /\ calls[i].pc = "done" /\ calls[i].res = OK
          /\ calls[j].pc = "done" /\ calls[j].res = OK
          /\ calls[i].op = "assignTeacherToClass"
          /\ calls[i].teacherId # NULL
          /\ calls[j].teacherId = calls[i].teacherId
          /\ calls[i].classId > 4 /\ calls[j].classId > 4
          /\ calls[i].classId # calls[j].classId )
        => ( /\ \A k \in {i, j} :
                    theRow(classRows(calls[k].classId)).teacherId
                        = calls[k].teacherId
             /\ Cardinality(teacherClasses(calls[i].teacherId)) >= 6 )

\* both assignTeacherToClass calls have returned successfully and the
\* teacher owns 6 classes
C27_Witness ==
    /\ \A i \in 1..2 :
           /\ calls[i].op = "assignTeacherToClass"
           /\ calls[i].pc = "done" /\ calls[i].res = OK
    /\ calls[1].classId # calls[2].classId
    /\ Cardinality(teacherClasses(1)) = 6

\* C28: enrollStudent(c2, s) for a student s that is in a different class
\* c1, with c2 existing and holding fewer than 5 students, succeeds without
\* a prior removeStudentFromClass: afterwards s.classId = c2, the student
\* count of c1 has dropped by one and that of c2 has risen by one, and no
\* other student and no class has changed.
C28_EnrollMovesBetweenClasses ==
    [][last'.op = "enrollStudent" => \A c2 \in ClassIds, x \in students :
          ( /\ classRows(c2) # {}
            /\ studentCount(c2) < 5
            /\ x.classId # NULL /\ x.classId # c2
            /\ enrollStudent(c2, x.id) )
          => ( /\ last'.res = OK
               /\ students' = (students \ {x}) \cup {[x EXCEPT !.classId = c2]}
               /\ (studentCount(x.classId))' = studentCount(x.classId) - 1
               /\ (studentCount(c2))' = studentCount(c2) + 1
               /\ \A k \in classes :
                      k.id \notin {c2, x.classId} =>
                          (studentCount(k.id))' = studentCount(k.id)
               /\ UNCHANGED <<users, classes>> )]_vars

\* enrollStudent has just succeeded and a student is in a class other than
\* the one it was created in, which still holds students
C28_Witness ==
    /\ last.op = "enrollStudent"
    /\ last.res = OK
    /\ \E s \in students : s.classId = 2
    /\ studentCount(1) = 4

\* C29: updateStudent(s, {classId: null}) on an existing student always
\* succeeds and leaves s with no class, whether s was in a class or already
\* in none (where removeStudentFromClass fails with the not-enrolled error,
\* PreconditionFailed), and changes no other student; updateStudent with
\* classId omitted leaves the class reference as it was.
C29_UpdateClassIdNull ==
    [][last'.op = "updateStudent" =>
          \A x \in students, n \in {Absent, "Bob"} :
              /\ updateStudent(x.id, n, UNDEFINED, NULL) =>
                     /\ last'.res = OK
                     /\ \E y \in students' : y.id = x.id /\ y.classId = NULL
                     /\ {y \in students' : y.id # x.id} =
                            {y \in students : y.id # x.id}
                     /\ x.classId = NULL =>
                            removeStudentFromClassResult(x.id) = ErrNotEnrolled
              /\ updateStudent(x.id, n, UNDEFINED, UNDEFINED) =>
                     /\ last'.res = OK
                     /\ \E y \in students' :
                            y.id = x.id /\ y.classId = x.classId
                     /\ {y \in students' : y.id # x.id} =
                            {y \in students : y.id # x.id}]_vars

\* updateStudent has just succeeded and a student that was created in a
\* class is in none, beside a student that is still in its class
C29_Witness ==
    /\ last.op = "updateStudent"
    /\ last.res = OK
    /\ \E s1 \in students, s2 \in students :
           s1.classId = NULL /\ s2.classId # NULL

\* C30: under any interleaving, statement by statement, of deleteClass(c)
\* with enrollStudent(c, s), createStudent(.., classId = c) or
\* updateStudent(s, {classId: c}), no reachable state has a student whose
\* classId refers to a deleted class; when a deleteClass(c) call and one such
\* call for the same c are the only calls made and both have returned, the
\* delete or the assignment has failed (the store's foreign key on
\* students.classId rejects the losing write).
C30_NoDanglingClassReference ==
    /\ \A s \in students : s.classId = NULL \/ classRows(s.classId) # {}
    /\ \A i \in 1..MaxCalls, j \in 1..MaxCalls :
           ( /\ calls[i].op = "deleteClass"
             /\ calls[j].op \in {"enrollStudent", "createStudent", "updateStudent"}
             /\ calls[j].classId = calls[i].classId
             /\ calls[i].pc = "done" /\ calls[j].pc = "done"
             /\ \A k \in 1..MaxCalls \ {i, j} : calls[k].pc = "idle" )
           => (calls[i].res # OK \/ calls[j].res # OK)

\* a deleteClass call has returned successfully and the overlapping call
\* that passed its class lookup had its write refused by the foreign key
C30_Witness ==
    \E i \in 1..MaxCalls, j \in 1..MaxCalls :
        /\ calls[i].op = "deleteClass"
        /\ calls[i].pc = "done" /\ calls[i].res = OK
        /\ calls[j].pc = "done" /\ calls[j].res = ErrFkStudents
        /\ calls[j].classId = calls[i].classId
        /\ classRows(calls[i].classId) = {}

====
